---- MODULE Spec2Model ----
(***************************************************************************)
(* Model of scripts/contract_kernel_lib.py: the reference resolver         *)
(* (extract_contract_ref, find_section_line), the anchor parser            *)
(* (parse_anchors) and the validation rule parser                          *)
(* (parse_validation_rules).                                               *)
(*                                                                         *)
(* Text is a sequence of tokens.  A one-character token ("2", ".", " ")    *)
(* is that character; a longer token ("Anchor-1", "Contract", "Sample")    *)
(* is a run of characters that the line vocabularies below never place     *)
(* next to a token it would merge with.  The regular expressions of the    *)
(* source are operators over token sequences.                              *)
(***************************************************************************)
EXTENDS Integers, Sequences, FiniteSets, TLC

\* ------------------------------------------------------------------ bounds
MaxLines == 6
MaxContractLines == 2
MaxCalls == 2           \* parser calls made one after another in SpecCalls
MaxCallLines == 3       \* lines of each document in SpecCalls
MaxTextLen == 5         \* tokens of the text handed to extract_contract_ref
MaxVersionLines == 3    \* lines of the text handed to parse_contract_version

\* ------------------------------------------------------- token classes
SpaceToks == {" ", "\t"}
DigitToks == {"0", "1", "2", "9"}
LetterToks == {"x", "T", "U", "Sample", "Other", "see", "and", "none", "not", "gate", "id",
               "r1", "r2", "t1", "f1", "o1", "foo",
               "Contract", "Ref", "Citation", "Rule", "Trigger", "Failure", "Mode",
               "Gate", "ID", "Owner",
               "contract", "ref", "citation", "rule", "trigger", "failure", "mode",
               "owner"}
AlnumToks == DigitToks \cup LetterToks
AnchorIdToks == {"Anchor-1", "Anchor-10", "Anchor-2"}
RuleIdToks == {"VR-001", "VR-002", "VR-X"}
GateIdToks == {"VR-001", "VR-002", "VR-010", "VR-011"}
\* tokens that begin and end with a word character (for \b)
WordToks == AlnumToks \cup AnchorIdToks \cup RuleIdToks \cup GateIdToks

\* ----------------------------------------------------- string helpers
Slice(s, a, b) == IF a > b THEN <<>> ELSE SubSeq(s, a, b)

\* index of the last token of the run of tokens of class S that starts at p
\* (p - 1 when s[p] is not in S): a greedy S* from p
RECURSIVE SpanEnd(_, _, _)
SpanEnd(s, p, S) ==
    IF p <= Len(s) /\ s[p] \in S THEN SpanEnd(s, p + 1, S) ELSE p - 1

RECURSIVE LStrip(_)
LStrip(s) == IF s # <<>> /\ Head(s) \in SpaceToks THEN LStrip(Tail(s)) ELSE s

RECURSIVE RStrip(_)
RStrip(s) ==
    IF s # <<>> /\ s[Len(s)] \in SpaceToks THEN RStrip(Slice(s, 1, Len(s) - 1)) ELSE s

Strip(s) == LStrip(RStrip(s))

RemoveSpaces(s) == SelectSeq(s, LAMBDA t : t # " ")

\* Python's `a in b` for strings
IsSubstring(a, b) ==
    \E i \in 0 .. (Len(b) - Len(a)) : \A k \in 1 .. Len(a) : b[i + k] = a[k]

\* str.lower(), token by token
LowerTok(t) ==
    CASE t = "Contract" -> "contract"
      [] t = "Ref" -> "ref"
      [] t = "Citation" -> "citation"
      [] t = "Rule" -> "rule"
      [] t = "Trigger" -> "trigger"
      [] t = "Failure" -> "failure"
      [] t = "Mode" -> "mode"
      [] t = "Gate" -> "gate"
      [] t = "ID" -> "id"
      [] t = "Owner" -> "owner"
      [] t = "H" -> "h"
      [] OTHER -> t

Lower(s) == [i \in 1 .. Len(s) |-> LowerTok(s[i])]

\* ------------------------------------------------- reference resolver
\* end of the longest match of [0-9]+(?:\.[0-9A-Za-z]+)* starting at p; p - 1 if none
RECURSIVE DottedTailEnd(_, _)
DottedTailEnd(s, q) ==
    IF q + 2 <= Len(s) /\ s[q + 1] = "." /\ s[q + 2] \in AlnumToks
    THEN DottedTailEnd(s, SpanEnd(s, q + 2, AlnumToks))
    ELSE q

DottedPathEnd(s, p) ==
    LET d == SpanEnd(s, p, DigitToks)
    IN IF d < p THEN p - 1 ELSE DottedTailEnd(s, d)

\* SECTION_REF_RE.search(text): <<start, end>> of the leftmost match, <<0, 0>> if none
SECTION_REF_RE(text) ==
    LET Starts == {i \in 1 .. Len(text) :
                      /\ text[i] = "§"
                      /\ LET p == SpanEnd(text, i + 1, SpaceToks) + 1
                         IN DottedPathEnd(text, p) >= p}
    IN IF Starts = {} THEN <<0, 0>>
       ELSE LET i == CHOOSE m \in Starts : \A n \in Starts : m <= n
                p == SpanEnd(text, i + 1, SpaceToks) + 1
            IN <<i, DottedPathEnd(text, p)>>

\* re.search(r"Contract\s+([0-9]+(?:\.[0-9A-Za-z]+)*)", text): <<start, end>> of group 1
CONTRACT_N_RE(text) ==
    LET Starts == {i \in 1 .. Len(text) :
                      /\ text[i] = "Contract"
                      /\ LET p == SpanEnd(text, i + 1, SpaceToks) + 1
                         IN p > i + 1 /\ DottedPathEnd(text, p) >= p}
    IN IF Starts = {} THEN <<0, 0>>
       ELSE LET i == CHOOSE m \in Starts : \A n \in Starts : m <= n
                p == SpanEnd(text, i + 1, SpaceToks) + 1
            IN <<p, DottedPathEnd(text, p)>>

\* mutant of extract_contract_ref: the "Contract N" form is tried first
extract_contract_ref_contract_first(text) ==
    LET m == SECTION_REF_RE(text)
        c == CONTRACT_N_RE(text)
    IN IF c # <<0, 0>> THEN <<"§">> \o Slice(text, c[1], c[2])
       ELSE IF m # <<0, 0>> THEN RemoveSpaces(Slice(text, m[1], m[2]))
       ELSE <<>>

extract_contract_ref(text) ==
    LET m == SECTION_REF_RE(text)
        c == CONTRACT_N_RE(text)
    IN IF m # <<0, 0>> THEN RemoveSpaces(Slice(text, m[1], m[2]))
       ELSE IF c # <<0, 0>> THEN <<"§">> \o Slice(text, c[1], c[2])
       ELSE <<>>

\* mutant of Targets: the unprefixed form is not tried
Targets_prefixed_only(section_ref) == <<section_ref>>

\* targets = [section_ref] plus section_ref[1:] when it starts with "§"
Targets(section_ref) ==
    IF section_ref # <<>> /\ Head(section_ref) = "§"
    THEN <<section_ref, Tail(section_ref)>>
    ELSE <<section_ref>>

\* `if target and target in line` for some target
LineHits(ln, section_ref) ==
    \E k \in 1 .. Len(Targets(section_ref)) :
        Targets(section_ref)[k] # <<>> /\ IsSubstring(Targets(section_ref)[k], ln)

\* the scan of find_section_line from line idx on
RECURSIVE ScanFrom(_, _, _)
ScanFrom(lines, section_ref, idx) ==
    IF idx > Len(lines) THEN 0
    ELSE IF LineHits(lines[idx], section_ref) THEN idx
    ELSE ScanFrom(lines, section_ref, idx + 1)

\* mutant of find_section_line: enumerate(lines) without start=1
find_section_line_zero_based(lines, section_ref) ==
    LET idx == ScanFrom(lines, section_ref, 1)
    IN IF idx = 0 THEN 0 ELSE idx - 1

find_section_line(lines, section_ref) == ScanFrom(lines, section_ref, 1)

\* ------------------------------------------------------ line patterns
\* ^##\s+(<id>):\s*(.+)$ on a line without trailing blanks, <id> one token of Ids:
\* <<id, group 2>>, or <<>> when the line does not match
HeaderMatch(s, Ids) ==
    IF Len(s) < 2 \/ s[1] # "##" THEN <<>>
    ELSE LET k == SpanEnd(s, 2, SpaceToks)
             j == SpanEnd(s, k + 3, SpaceToks) + 1
         IN IF /\ k >= 2
               /\ k + 2 <= Len(s)
               /\ s[k + 1] \in Ids
               /\ s[k + 2] = ":"
               /\ j <= Len(s)
            THEN <<s[k + 1], Slice(s, j, Len(s))>>
            ELSE <<>>

ANCHOR_HEADER_RE(s) == HeaderMatch(s, AnchorIdToks)

RULE_HEADER_RE(s) == HeaderMatch(s, RuleIdToks)

\* CONTRACT_REF_RE.search(rest), rest stripped: \(Contract\s+([^\)]+)\)\s*$
\* <<start of the match, group 1>>, or <<>>
CONTRACT_REF_RE(rest) ==
    LET n == Len(rest)
        Starts == {i \in 1 .. n :
                      /\ i + 4 <= n
                      /\ rest[i] = "("
                      /\ rest[i + 1] = "Contract"
                      /\ rest[i + 2] \in SpaceToks
                      /\ rest[n] = ")"
                      /\ \A k \in (i + 2) .. (n - 1) : rest[k] # ")"}
    IN IF Starts = {} THEN <<>>
       ELSE LET i == CHOOSE m \in Starts : \A q \in Starts : m <= q
                sp == SpanEnd(rest, i + 2, SpaceToks)
            IN <<i, IF sp = n - 1 THEN <<rest[n - 1]>> ELSE Slice(rest, sp + 1, n - 1)>>

\* ------------------------------------------------------------ failures
NoError == [kind |-> "none", id |-> "", missing |-> <<>>]

Message(kind, id, missing) == [kind |-> kind, id |-> id, missing |-> missing]

\* SystemExit was raised in frame s: the statements that follow are skipped
Raised(s) == s.pc = "failed"

\* mutant of fail: the message is printed and SystemExit is not raised
fail_prints_only(s, message) == [s EXCEPT !.err = message]

\* fail(message): print the message to stderr and raise SystemExit(1)
fail(s, message) == [s EXCEPT !.err = message, !.pc = "failed"]

\* --------------------------------------------------------------- sorting
IdOrder == <<"Anchor-1", "Anchor-10", "Anchor-2", "VR-001", "VR-002", "VR-X">>

IdRank(id) == CHOOSE i \in 1 .. Len(IdOrder) : IdOrder[i] = id

\* sorted(items, key=lambda item: item["id"]): a stable sort
RECURSIVE InsertById(_, _)
InsertById(x, sorted) ==
    IF sorted = <<>> THEN <<x>>
    ELSE IF IdRank(x.id) < IdRank(Head(sorted).id) THEN <<x>> \o sorted
    ELSE <<Head(sorted)>> \o InsertById(x, Tail(sorted))

\* mutant of SortedById: the list is returned in the order of accumulation
SortedById_unsorted(items) == items

RECURSIVE SortedById(_)
SortedById(items) ==
    IF items = <<>> THEN <<>>
    ELSE InsertById(items[Len(items)], SortedById(Slice(items, 1, Len(items) - 1)))

\* --------------------------------------------------------- anchor parser
\* mutant of anchor_flush: the duplicate test comes before the missing-ref test
anchor_flush_dup_first(s, lines) ==
    IF s.current = <<>> THEN s
    ELSE LET cur == s.current[1]
             s1 == IF cur.id \in s.seen
                   THEN fail(s, Message("duplicate anchor id", cur.id, <<>>))
                   ELSE s
             s2 == IF Raised(s1) THEN s1
                   ELSE IF cur.contract_ref = <<>>
                        THEN fail(s1, Message("anchor missing contract ref", cur.id, <<>>))
                        ELSE s1
             s3 == IF Raised(s2) THEN s2 ELSE [s2 EXCEPT !.seen = @ \cup {cur.id}]
             line_number == find_section_line(lines, cur.contract_ref)
             s4 == IF Raised(s3) THEN s3
                   ELSE IF line_number = 0
                        THEN fail(s3, Message("anchor contract ref not found", cur.id, <<>>))
                        ELSE s3
         IN IF Raised(s4) THEN s4
            ELSE [s4 EXCEPT
                    !.anchors = Append(@, [id |-> cur.id,
                                           title |-> cur.title,
                                           contract_ref |-> cur.contract_ref,
                                           proof |-> [section |-> cur.contract_ref,
                                                      line |-> line_number]]),
                    !.current = <<>>]

\* mutant of anchor_flush: the `in seen` test is left out
anchor_flush_no_dup_check(s, lines) ==
    IF s.current = <<>> THEN s
    ELSE LET cur == s.current[1]
             s1 == IF cur.contract_ref = <<>>
                   THEN fail(s, Message("anchor missing contract ref", cur.id, <<>>))
                   ELSE s
             s3 == IF Raised(s1) THEN s1 ELSE [s1 EXCEPT !.seen = @ \cup {cur.id}]
             line_number == find_section_line(lines, cur.contract_ref)
             s4 == IF Raised(s3) THEN s3
                   ELSE IF line_number = 0
                        THEN fail(s3, Message("anchor contract ref not found", cur.id, <<>>))
                        ELSE s3
         IN IF Raised(s4) THEN s4
            ELSE [s4 EXCEPT
                    !.anchors = Append(@, [id |-> cur.id,
                                           title |-> cur.title,
                                           contract_ref |-> cur.contract_ref,
                                           proof |-> [section |-> cur.contract_ref,
                                                      line |-> line_number]]),
                    !.current = <<>>]

\* s is the frame of one parse_anchors call: [current, seen, anchors, err, pc];
\* current is <<>> (None) or <<record>>
anchor_flush(s, lines) ==
    IF s.current = <<>> THEN s
    ELSE LET cur == s.current[1]
             s1 == IF cur.contract_ref = <<>>
                   THEN fail(s, Message("anchor missing contract ref", cur.id, <<>>))
                   ELSE s
             s2 == IF Raised(s1) THEN s1
                   ELSE IF cur.id \in s1.seen
                        THEN fail(s1, Message("duplicate anchor id", cur.id, <<>>))
                        ELSE s1
             s3 == IF Raised(s2) THEN s2 ELSE [s2 EXCEPT !.seen = @ \cup {cur.id}]
             line_number == find_section_line(lines, cur.contract_ref)
             s4 == IF Raised(s3) THEN s3
                   ELSE IF line_number = 0
                        THEN fail(s3, Message("anchor contract ref not found", cur.id, <<>>))
                        ELSE s3
         IN IF Raised(s4) THEN s4
            ELSE [s4 EXCEPT
                    !.anchors = Append(@, [id |-> cur.id,
                                           title |-> cur.title,
                                           contract_ref |-> cur.contract_ref,
                                           proof |-> [section |-> cur.contract_ref,
                                                      line |-> line_number]]),
                    !.current = <<>>]

\* mutant of anchor_header: the title keeps the "(Contract ...)" suffix
anchor_header_title_with_suffix(s, header, lines) ==
    LET s1 == anchor_flush(s, lines)
        anchor_id == header[1]
        rest == Strip(header[2])
        ref_match == CONTRACT_REF_RE(rest)
        contract_ref == IF ref_match # <<>> THEN Strip(ref_match[2]) ELSE <<>>
    IN IF Raised(s1) THEN s1
       ELSE [s1 EXCEPT !.current = <<[id |-> anchor_id,
                                     title |-> rest,
                                     contract_ref |-> contract_ref]>>]

\* mutant of anchor_header: the title is tested before flush() is called
anchor_header_title_first(s, header, lines) ==
    LET anchor_id == header[1]
        rest == Strip(header[2])
        ref_match == CONTRACT_REF_RE(rest)
        contract_ref == IF ref_match # <<>> THEN Strip(ref_match[2]) ELSE <<>>
        title == IF ref_match # <<>> THEN RStrip(Slice(rest, 1, ref_match[1] - 1)) ELSE rest
        s1 == IF title = <<>>
              THEN fail(s, Message("anchor missing title", anchor_id, <<>>))
              ELSE anchor_flush(s, lines)
    IN IF Raised(s1) THEN s1
       ELSE [s1 EXCEPT !.current = <<[id |-> anchor_id,
                                     title |-> title,
                                     contract_ref |-> contract_ref]>>]

\* the body of `if header:` for header = <<anchor_id, group 2>>
anchor_header(s, header, lines) ==
    LET s1 == anchor_flush(s, lines)
        anchor_id == header[1]
        rest == Strip(header[2])
        ref_match == CONTRACT_REF_RE(rest)
        contract_ref == IF ref_match # <<>> THEN Strip(ref_match[2]) ELSE <<>>
        title == IF ref_match # <<>> THEN RStrip(Slice(rest, 1, ref_match[1] - 1)) ELSE rest
        s2 == IF Raised(s1) THEN s1
              ELSE IF title = <<>>
                   THEN fail(s1, Message("anchor missing title", anchor_id, <<>>))
                   ELSE s1
    IN IF Raised(s2) THEN s2
       ELSE [s2 EXCEPT !.current = <<[id |-> anchor_id,
                                     title |-> title,
                                     contract_ref |-> contract_ref]>>]

\* mutant of anchor_body: `if current is None: continue` is left out, so that
\* current.get is called on None
anchor_body_no_record_check(s, ln) ==
    IF s.current = <<>> THEN fail(s, Message("AttributeError", "", <<>>))
    ELSE IF s.current[1].contract_ref = <<>>
    THEN LET ref == extract_contract_ref(ln)
         IN IF ref # <<>> THEN [s EXCEPT !.current[1].contract_ref = ref] ELSE s
    ELSE s

\* mutant of anchor_body: `if not current.get("contract_ref")` is left out
anchor_body_last_ref_wins(s, ln) ==
    IF s.current = <<>> THEN s
    ELSE LET ref == extract_contract_ref(ln)
         IN IF ref # <<>> THEN [s EXCEPT !.current[1].contract_ref = ref] ELSE s

\* the rest of the loop body, for a line that is no header
anchor_body(s, ln) ==
    IF s.current = <<>> THEN s
    ELSE IF s.current[1].contract_ref = <<>>
    THEN LET ref == extract_contract_ref(ln)
         IN IF ref # <<>> THEN [s EXCEPT !.current[1].contract_ref = ref] ELSE s
    ELSE s

\* mutant of anchor_finish: the flush() after the loop is left out
anchor_finish_no_flush(s, lines) ==
    IF s.anchors = <<>>
    THEN fail(s, Message("no anchors parsed", "", <<>>))
    ELSE s

\* mutant of anchor_finish: the empty check is left out
anchor_finish_no_empty_check(s, lines) == anchor_flush(s, lines)

\* after the loop: flush(), the empty check, the sorted return value
anchor_finish(s, lines) ==
    LET s1 == anchor_flush(s, lines)
    IN IF Raised(s1) THEN s1
       ELSE IF s1.anchors = <<>>
            THEN fail(s1, Message("no anchors parsed", "", <<>>))
            ELSE s1

\* --------------------------------------------------------- rule parser
\* FIELD_RE.match(s), s stripped: ^\*\*(.+?):\*\*\s*(.*)$
\* <<group 1, group 2>>, or <<>>
FIELD_RE(s) ==
    LET Ends == {k \in 3 .. Len(s) : s[k] = ":**"}
    IN IF Len(s) < 3 \/ s[1] # "**" \/ Ends = {} THEN <<>>
       ELSE LET k == CHOOSE m \in Ends : \A q \in Ends : m <= q
                j == SpanEnd(s, k + 1, SpaceToks) + 1
            IN <<Slice(s, 2, k - 1), Slice(s, j, Len(s))>>

\* GATE_ID_RE.findall(text) from token i on: \bVR-\d{3}[a-z]?\b
RECURSIVE GateIdsFrom(_, _)
GateIdsFrom(text, i) ==
    IF i > Len(text) THEN <<>>
    ELSE IF /\ text[i] \in GateIdToks
            /\ (i = 1 \/ text[i - 1] \notin WordToks)
            /\ (i = Len(text) \/ text[i + 1] \notin WordToks)
         THEN <<text[i]>> \o GateIdsFrom(text, i + 1)
         ELSE GateIdsFrom(text, i + 1)

GATE_ID_RE(text) == GateIdsFrom(text, 1)

LowerAlnumToks ==
    DigitToks \cup {"x", "see", "and", "none", "not", "gate", "id", "r1", "r2", "t1", "f1",
                    "o1", "foo", "contract", "ref", "citation", "rule", "trigger",
                    "failure", "mode", "owner"}

\* re.sub(r"[^a-z0-9]+", "_", ...): each run of other tokens becomes one "_"
RECURSIVE CollapseOther(_, _)
CollapseOther(s, inRun) ==
    IF s = <<>> THEN <<>>
    ELSE IF Head(s) \in LowerAlnumToks THEN <<Head(s)>> \o CollapseOther(Tail(s), FALSE)
    ELSE IF inRun THEN CollapseOther(Tail(s), TRUE)
    ELSE <<"_">> \o CollapseOther(Tail(s), TRUE)

RECURSIVE StripUnderscores(_)
StripUnderscores(s) ==
    IF s # <<>> /\ Head(s) = "_" THEN StripUnderscores(Tail(s))
    ELSE IF s # <<>> /\ s[Len(s)] = "_" THEN StripUnderscores(Slice(s, 1, Len(s) - 1))
    ELSE s

normalize_field_name(label) == StripUnderscores(CollapseOther(Lower(Strip(label)), FALSE))

\* the loop of dedup_preserve from item i on, with its `seen` set and `out` list
RECURSIVE DedupLoop(_, _, _, _)
DedupLoop(items, i, seenItems, out) ==
    IF i > Len(items) THEN out
    ELSE IF items[i] \in seenItems THEN DedupLoop(items, i + 1, seenItems, out)
    ELSE DedupLoop(items, i + 1, seenItems \cup {items[i]}, Append(out, items[i]))

\* mutant of dedup_preserve: the `if item in seen: continue` test is left out
dedup_preserve_no_skip(items) == items

dedup_preserve(items) == DedupLoop(items, 1, {}, <<>>)

\* `not current.get(key)`
FieldEmpty(cur, key) ==
    CASE key = "id" -> cur.id = ""
      [] key = "title" -> cur.title = <<>>
      [] key = "contract_ref" -> cur.contract_ref = <<>>
      [] key = "rule" -> cur.rule = <<>>

\* mutant of MissingKeys: only the first missing key is reported
MissingKeys_first_only(cur) ==
    LET missing == SelectSeq(<<"id", "title", "contract_ref", "rule">>,
                             LAMBDA key : FieldEmpty(cur, key))
    IN IF missing = <<>> THEN <<>> ELSE <<Head(missing)>>

MissingKeys(cur) ==
    SelectSeq(<<"id", "title", "contract_ref", "rule">>, LAMBDA key : FieldEmpty(cur, key))

\* mutant of enforcement: the view is taken from the title
enforcement_of_title(cur) == [rule |-> cur.title]

\* "enforcement": {"rule": current["rule"]}
enforcement(cur) == [rule |-> cur.rule]

\* mutant of rule_flush: the duplicate test comes before the missing-fields test
rule_flush_dup_first(s) ==
    IF s.current = <<>> THEN s
    ELSE LET cur == s.current[1]
             missing == MissingKeys(cur)
             s1 == IF cur.id \in s.seen
                   THEN fail(s, Message("duplicate validation rule id", cur.id, <<>>))
                   ELSE s
             s2 == IF Raised(s1) THEN s1
                   ELSE IF missing # <<>>
                        THEN fail(s1, Message("validation rule missing fields", cur.id,
                                              missing))
                        ELSE s1
             s3 == IF Raised(s2) THEN s2 ELSE [s2 EXCEPT !.seen = @ \cup {cur.id}]
             gate_ids == dedup_preserve(cur.gate_ids)
             fields == [key \in DOMAIN cur.fields |-> dedup_preserve(cur.fields[key])]
         IN IF Raised(s3) THEN s3
            ELSE [s3 EXCEPT
                    !.rules = Append(@, [id |-> cur.id,
                                         title |-> cur.title,
                                         contract_ref |-> cur.contract_ref,
                                         rule |-> cur.rule,
                                         gate_ids |-> gate_ids,
                                         fields |-> fields,
                                         enforcement |-> enforcement(cur)]),
                    !.current = <<>>]

\* s is the frame of one parse_validation_rules call:
\* [current, seen, rules, gate_block, err, pc]
rule_flush(s) ==
    IF s.current = <<>> THEN s
    ELSE LET cur == s.current[1]
             missing == MissingKeys(cur)
             s1 == IF missing # <<>>
                   THEN fail(s, Message("validation rule missing fields", cur.id, missing))
                   ELSE s
             s2 == IF Raised(s1) THEN s1
                   ELSE IF cur.id \in s1.seen
                        THEN fail(s1, Message("duplicate validation rule id", cur.id, <<>>))
                        ELSE s1
             s3 == IF Raised(s2) THEN s2 ELSE [s2 EXCEPT !.seen = @ \cup {cur.id}]
             gate_ids == dedup_preserve(cur.gate_ids)
             fields == [key \in DOMAIN cur.fields |-> dedup_preserve(cur.fields[key])]
         IN IF Raised(s3) THEN s3
            ELSE [s3 EXCEPT
                    !.rules = Append(@, [id |-> cur.id,
                                         title |-> cur.title,
                                         contract_ref |-> cur.contract_ref,
                                         rule |-> cur.rule,
                                         gate_ids |-> gate_ids,
                                         fields |-> fields,
                                         enforcement |-> enforcement(cur)]),
                    !.current = <<>>]

\* mutant of rule_header: `gate_block = False` is left out
rule_header_gate_block_kept(s, header_match) ==
    LET s1 == rule_flush(s)
    IN IF Raised(s1) THEN s1
       ELSE [s1 EXCEPT !.current = <<[id |-> header_match[1],
                                      title |-> Strip(header_match[2]),
                                      contract_ref |-> <<>>,
                                      rule |-> <<>>,
                                      gate_ids |-> <<>>,
                                      fields |-> <<>>]>>]

\* the body of `if header_match:` for header_match = <<id, group 2>>
rule_header(s, header_match) ==
    LET s1 == rule_flush(s)
    IN IF Raised(s1) THEN s1
       ELSE [s1 EXCEPT !.gate_block = FALSE,
                       !.current = <<[id |-> header_match[1],
                                      title |-> Strip(header_match[2]),
                                      contract_ref |-> <<>>,
                                      rule |-> <<>>,
                                      gate_ids |-> <<>>,
                                      fields |-> <<>>]>>]

\* current["fields"].setdefault(key, []).append(value)
AppendField(fields, key, value) ==
    IF key \in DOMAIN fields
    THEN [fields EXCEPT ![key] = Append(@, value)]
    ELSE [k \in DOMAIN fields \cup {key} |-> IF k = key THEN <<value>> ELSE fields[k]]

\* mutant of SetsRule: a "rule" label is guarded like the other two
SetsRule_all_guarded(label_lower, rule) ==
    /\ label_lower \in {<<"rule">>, <<"trigger">>, <<"failure", " ", "mode">>}
    /\ rule = <<>>

\* mutant of SetsRule: the `and not current["rule"]` guards are left out
SetsRule_unguarded(label_lower, rule) ==
    label_lower \in {<<"rule">>, <<"trigger">>, <<"failure", " ", "mode">>}

\* the three tests that guard `current["rule"] = value`: a "rule" label always,
\* a "trigger" or "failure mode" label only while rule is empty
SetsRule(label_lower, rule) ==
    \/ label_lower = <<"rule">>
    \/ label_lower = <<"trigger">> /\ rule = <<>>
    \/ label_lower = <<"failure", " ", "mode">> /\ rule = <<>>

\* mutant of rule_field: a "Contract Ref" / "Contract Citation" field with an
\* empty value leaves contract_ref as it is
rule_field_empty_ref_ignored(s, field_match) ==
    LET s0 == [s EXCEPT !.gate_block = FALSE]
        label == Strip(field_match[1])
        value == Strip(field_match[2])
        label_lower == Lower(label)
        cur == s.current[1]
    IN IF label_lower \in {<<"contract", " ", "ref">>, <<"contract", " ", "citation">>}
       THEN IF value = <<>> THEN s0
            ELSE [s0 EXCEPT !.current[1].contract_ref =
                               IF extract_contract_ref(value) # <<>>
                               THEN extract_contract_ref(value) ELSE value]
       ELSE IF SetsRule(label_lower, cur.rule)
       THEN [s0 EXCEPT !.current[1].rule = value]
       ELSE IF label_lower = <<"gate", " ", "id">>
       THEN IF value # <<>>
            THEN LET ids == GATE_ID_RE(value)
                 IN IF ids = <<>>
                    THEN fail(s0, Message("gate id field missing VR-XXX value", cur.id, <<>>))
                    ELSE [s0 EXCEPT !.current[1].gate_ids = @ \o ids]
            ELSE [s0 EXCEPT !.gate_block = TRUE]
       ELSE IF value # <<>>
       THEN [s0 EXCEPT !.current[1].fields =
                          AppendField(@, normalize_field_name(label), value)]
       ELSE s0

\* the body of `if field_match:` for field_match = <<group 1, group 2>>
rule_field(s, field_match) ==
    LET s0 == [s EXCEPT !.gate_block = FALSE]
        label == Strip(field_match[1])
        value == Strip(field_match[2])
        label_lower == Lower(label)
        cur == s.current[1]
    IN IF label_lower \in {<<"contract", " ", "ref">>, <<"contract", " ", "citation">>}
       THEN [s0 EXCEPT !.current[1].contract_ref =
                          IF extract_contract_ref(value) # <<>>
                          THEN extract_contract_ref(value) ELSE value]
       ELSE IF SetsRule(label_lower, cur.rule)
       THEN [s0 EXCEPT !.current[1].rule = value]
       ELSE IF label_lower = <<"gate", " ", "id">>
       THEN IF value # <<>>
            THEN LET ids == GATE_ID_RE(value)
                 IN IF ids = <<>>
                    THEN fail(s0, Message("gate id field missing VR-XXX value", cur.id, <<>>))
                    ELSE [s0 EXCEPT !.current[1].gate_ids = @ \o ids]
            ELSE [s0 EXCEPT !.gate_block = TRUE]
       ELSE IF value # <<>>
       THEN [s0 EXCEPT !.current[1].fields =
                          AppendField(@, normalize_field_name(label), value)]
       ELSE s0

\* mutant of rule_gate_line: a list entry without a gate id is passed over
rule_gate_line_lenient(s, ln) ==
    LET ids == GATE_ID_RE(ln)
    IN IF ids # <<>> THEN [s EXCEPT !.current[1].gate_ids = @ \o ids] ELSE s

\* the body of `if gate_block:` for a line that is no header and no field
rule_gate_line(s, ln) ==
    LET ids == GATE_ID_RE(ln)
        stripped == Strip(ln)
    IN IF ids # <<>> THEN [s EXCEPT !.current[1].gate_ids = @ \o ids]
       ELSE IF stripped # <<>> /\ Head(stripped) \in {"-", "*", "**"}
       THEN fail(s, Message("gate id list entry missing VR-XXX value",
                            s.current[1].id, <<>>))
       ELSE s

\* mutant of rule_fallback: `if not current["contract_ref"]` is left out
rule_fallback_unguarded(s, ln) ==
    LET ref == extract_contract_ref(ln)
    IN IF ref # <<>> THEN [s EXCEPT !.current[1].contract_ref = ref] ELSE s

\* the fallback at the end of the loop body
rule_fallback(s, ln) ==
    IF s.current[1].contract_ref = <<>>
    THEN LET ref == extract_contract_ref(ln)
         IN IF ref # <<>> THEN [s EXCEPT !.current[1].contract_ref = ref] ELSE s
    ELSE s

\* after the loop: flush(), the empty check, the sorted return value
rule_finish(s) ==
    LET s1 == rule_flush(s)
    IN IF Raised(s1) THEN s1
       ELSE IF s1.rules = <<>>
            THEN fail(s1, Message("no validation rules parsed", "", <<>>))
            ELSE s1

\* ------------------------------------------------------------- inputs
\* lines of the master contract document (one-character tokens only)
ContractLineVocab ==
    { <<"x">>,                                   \* intro
      <<"§", "1", " ", "x">>,                    \* §1 x
      <<"x", " ", "§", "2", ".", "2", "0">>,     \* x §2.20
      <<"2", ".", "2">> }                        \* 2.2

RECURSIVE SeqsUpTo(_, _)
SeqsUpTo(S, n) ==
    IF n = 0 THEN {<<>>}
    ELSE LET shorter == SeqsUpTo(S, n - 1)
         IN shorter \cup {Append(q, x) : q \in {r \in shorter : Len(r) = n - 1}, x \in S}

\* a longer contract document: its line 7 is the only one with "§2.2"
ExampleContract ==
    <<<<"x">>, <<"x">>, <<"x">>, <<"x">>, <<"x">>, <<"x">>, <<"§", "2", ".", "2", " ", "x">>>>

ContractDocs == SeqsUpTo(ContractLineVocab, MaxContractLines) \cup {ExampleContract}

\* raw lines of an anchors document
AnchorLineVocab ==
    { <<"##", " ", "Anchor-1", ":", " ", "T", " ", "(", "Contract", " ", "§", "2", ".", "2", ")">>,
      <<"##", " ", "Anchor-1", ":", " ", "T", " ", "(", "Contract", " ", "§", "9", ")">>,
      <<"##", " ", "Anchor-2", ":", " ", "U", " ", "§", "1">>,
      <<" ", "##", " ", "Anchor-10", ":", " ", "T", " ", "(", "Contract", " ", "2", ".", "2", ")", " ">>,
      <<"##", " ", "Anchor-10", ":", " ", "U", " ", "(", "Contract", " ", "§", ")">>,
      <<"##", " ", "Anchor-2", ":", " ", "(", "Contract", " ", "§", "1", ")">>,
      <<"##", " ", "Anchor-1", ":">>,
      <<"see", " ", "§", " ", "2", ".", "2", " ", "and", " ", "Contract", " ", "1">>,
      <<"Contract", " ", "1">>,
      <<"x">> }

\* raw lines of a rules document
RuleLineVocab ==
    { <<"##", " ", "VR-001", ":", " ", "Sample">>,
      <<"##", " ", "VR-002", ":", " ", "Other">>,
      <<"##", " ", "VR-002", ":">>,
      <<"**", "Rule", ":**", " ", "r1">>,
      <<"**", "Rule", ":**", " ", "r2">>,
      <<"**", "Rule", ":**">>,
      <<"**", "Trigger", ":**", " ", "t1">>,
      <<"**", "Failure", " ", "Mode", ":**", " ", "f1">>,
      <<"**", "Contract", " ", "Ref", ":**", " ", "§", "2", ".", "2">>,
      <<"**", "Contract", " ", "Ref", ":**", " ", "foo">>,
      <<"**", "Contract", " ", "Citation", ":**">>,
      <<"**", "Gate", " ", "ID", ":**", " ", "VR-010", ",", " ", "VR-010">>,
      <<"**", "Gate", " ", "ID", ":**">>,
      <<"**", "Gate", " ", "ID", ":**", " ", "none">>,
      <<"-", " ", "VR-011">>,
      <<"-", " ", "not", " ", "a", " ", "gate", " ", "id">>,
      <<"*", " ", "x">>,
      <<"**", "Owner", ":**", " ", "o1">>,
      <<"see", " ", "§", "1">>,
      <<>> }

\* -------------------------------------------------------------- state
VARIABLES parser,          \* the entry point called
          contract_lines,  \* parse_anchors' contract_lines argument
          pc,              \* "scan", "returned" or "failed"
          nread,           \* number of lines read so far
          raw_line,        \* the loop variable: the line read last
          current,         \* the record under construction: <<>> or <<record>>
          seen,            \* ids flushed so far
          gate_block,      \* parse_validation_rules' gate_block
          anchors,         \* parse_anchors' accumulated list
          rules,           \* parse_validation_rules' accumulated list
          err,             \* the message of the failure raised, NoError if none
          result,          \* the list returned (when pc = "returned")
          section_ref,     \* the argument of a direct find_section_line call
          line_number,     \* its return value (when pc = "returned")
          header_ids,      \* history: ids of the recognized headers read so far
          repeated_header, \* history: some id was read in two recognized headers
          arg_text,        \* the argument of a direct extract_contract_ref call
          ret_ref,         \* its return value (when pc = "returned")
          calls,           \* the number of the parser call in progress
          earlier_ids,     \* history: ids flushed by the calls before this one
          contract_version,\* the return value of parse_contract_version
          args,            \* f1_certify's command line: [window, now_ms]
          metrics_raw,     \* f1_certify's metrics input, as read
          cert,            \* f1_certify's certificate: <<>> or <<record>>
          reasons,         \* f1_certify's status reasons
          written,         \* the artifacts f1_certify has written
          exit_code,       \* what main returned, or "raised"
          lint_env,        \* what vendor_docs_lint_rust finds in the repository
          failures         \* vendor_docs_lint_rust's failures

vars == <<parser, contract_lines, pc, nread, raw_line, current, seen, gate_block,
          anchors, rules, err, result, section_ref, line_number, header_ids,
          repeated_header, arg_text, ret_ref, calls, earlier_ids, contract_version,
          args, metrics_raw, cert, reasons, written, exit_code, lint_env, failures>>

resolver_vars == <<section_ref, line_number>>

history_vars == <<header_ids, repeated_header>>

extract_vars == <<arg_text, ret_ref>>

call_vars == <<calls, earlier_ids>>

certify_vars == <<args, metrics_raw, cert, reasons, written>>

lint_vars == <<lint_env, failures>>

tool_vars == <<contract_version, certify_vars, exit_code, lint_vars>>

\* the locals of the two parsers and their histories
scan_vars == <<nread, raw_line, current, seen, gate_block, anchors, rules, result,
               header_ids, repeated_header>>

\* no parser is scanning
ScanIdle ==
    /\ nread = 0
    /\ raw_line = <<>>
    /\ current = <<>>
    /\ seen = {}
    /\ gate_block = FALSE
    /\ anchors = <<>>
    /\ rules = <<>>
    /\ result = <<>>
    /\ header_ids = {}
    /\ repeated_header = FALSE
    /\ section_ref = <<>>
    /\ line_number = 0
    /\ arg_text = <<>>
    /\ ret_ref = <<>>
    /\ calls = 1
    /\ earlier_ids = {}

\* no tool has been run
ToolsIdle ==
    /\ contract_version = <<>>
    /\ args = [window |-> <<>>, now_ms |-> 0]
    /\ metrics_raw = <<>>
    /\ cert = <<>>
    /\ reasons = <<>>
    /\ written = {}
    /\ exit_code = "none"
    /\ lint_env = <<>>
    /\ failures = <<>>

\* the history after a recognized header with this id is read
HeaderRead(id) ==
    /\ header_ids' = header_ids \cup {id}
    /\ repeated_header' = (repeated_header \/ id \in header_ids)

Init ==
    /\ parser \in {"parse_anchors", "parse_validation_rules"}
    /\ contract_lines \in IF parser = "parse_anchors" THEN ContractDocs ELSE {<<>>}
    /\ pc = "scan"
    /\ nread = 0
    /\ raw_line = <<>>
    /\ current = <<>>
    /\ seen = {}
    /\ gate_block = FALSE
    /\ anchors = <<>>
    /\ rules = <<>>
    /\ err = NoError
    /\ result = <<>>
    /\ section_ref = <<>>
    /\ line_number = 0
    /\ header_ids = {}
    /\ repeated_header = FALSE
    /\ arg_text = <<>>
    /\ ret_ref = <<>>
    /\ calls = 1
    /\ earlier_ids = {}
    /\ ToolsIdle

AnchorFrame ==
    [current |-> current, seen |-> seen, anchors |-> anchors, err |-> err, pc |-> pc]

\* the locals after a step of parse_anchors that ends in frame s
AnchorStep(s) ==
    /\ current' = s.current
    /\ seen' = s.seen
    /\ anchors' = s.anchors
    /\ err' = s.err
    /\ pc' = s.pc
    /\ UNCHANGED <<parser, contract_lines, gate_block, rules, result, resolver_vars,
                   extract_vars, call_vars, tool_vars>>

\* one pass of the loop of parse_anchors on a header line
AnchorHeaderLine ==
    /\ parser = "parse_anchors" /\ pc = "scan" /\ nread < MaxLines
    /\ \E ln \in AnchorLineVocab :
          /\ ANCHOR_HEADER_RE(Strip(RStrip(ln))) # <<>>
          /\ raw_line' = ln
          /\ nread' = nread + 1
          /\ AnchorStep(anchor_header(AnchorFrame, ANCHOR_HEADER_RE(Strip(RStrip(ln))),
                                      contract_lines))
          /\ HeaderRead(ANCHOR_HEADER_RE(Strip(RStrip(ln)))[1])

\* one pass of the loop of parse_anchors on any other line
AnchorBodyLine ==
    /\ parser = "parse_anchors" /\ pc = "scan" /\ nread < MaxLines
    /\ \E ln \in AnchorLineVocab :
          /\ ANCHOR_HEADER_RE(Strip(RStrip(ln))) = <<>>
          /\ raw_line' = ln
          /\ nread' = nread + 1
          /\ AnchorStep(anchor_body(AnchorFrame, RStrip(ln)))
          /\ UNCHANGED history_vars

\* end of input: the final flush, the empty check and the return
AnchorFinish ==
    /\ parser = "parse_anchors" /\ pc = "scan"
    /\ LET s == anchor_finish(AnchorFrame, contract_lines)
       IN /\ current' = s.current
          /\ seen' = s.seen
          /\ anchors' = s.anchors
          /\ err' = s.err
          /\ pc' = IF Raised(s) THEN "failed" ELSE "returned"
          /\ result' = IF Raised(s) THEN result ELSE SortedById(s.anchors)
    /\ UNCHANGED <<parser, contract_lines, nread, raw_line, gate_block, rules,
                   resolver_vars, extract_vars, call_vars, history_vars,
                   tool_vars>>

RuleFrame ==
    [current |-> current, seen |-> seen, rules |-> rules, gate_block |-> gate_block,
     err |-> err, pc |-> pc]

\* the locals after a step of parse_validation_rules that ends in frame s
RuleStep(s) ==
    /\ current' = s.current
    /\ seen' = s.seen
    /\ rules' = s.rules
    /\ gate_block' = s.gate_block
    /\ err' = s.err
    /\ pc' = s.pc
    /\ UNCHANGED <<parser, contract_lines, anchors, result, resolver_vars,
                   extract_vars, call_vars, tool_vars>>

IsRuleHeader(ln) == RULE_HEADER_RE(RStrip(ln)) # <<>>

IsField(ln) == FIELD_RE(Strip(RStrip(ln))) # <<>>

\* one pass of the loop of parse_validation_rules on a header line
RuleHeaderLine ==
    /\ parser = "parse_validation_rules" /\ pc = "scan" /\ nread < MaxLines
    /\ \E ln \in RuleLineVocab :
          /\ IsRuleHeader(ln)
          /\ raw_line' = ln
          /\ nread' = nread + 1
          /\ RuleStep(rule_header(RuleFrame, RULE_HEADER_RE(RStrip(ln))))
          /\ HeaderRead(RULE_HEADER_RE(RStrip(ln))[1])

\* ... on a line read while no rule is in progress (`if current is None: continue`)
RuleSkipLine ==
    /\ parser = "parse_validation_rules" /\ pc = "scan" /\ nread < MaxLines
    /\ current = <<>>
    /\ \E ln \in RuleLineVocab :
          /\ ~IsRuleHeader(ln)
          /\ raw_line' = ln
          /\ nread' = nread + 1
          /\ RuleStep(RuleFrame)
          /\ UNCHANGED history_vars

\* ... on a field line of the rule in progress
RuleFieldLine ==
    /\ parser = "parse_validation_rules" /\ pc = "scan" /\ nread < MaxLines
    /\ current # <<>>
    /\ \E ln \in RuleLineVocab :
          /\ ~IsRuleHeader(ln) /\ IsField(ln)
          /\ raw_line' = ln
          /\ nread' = nread + 1
          /\ RuleStep(rule_field(RuleFrame, FIELD_RE(Strip(RStrip(ln)))))
          /\ UNCHANGED history_vars

\* ... on a line of a gate id list block
RuleGateBlockLine ==
    /\ parser = "parse_validation_rules" /\ pc = "scan" /\ nread < MaxLines
    /\ current # <<>> /\ gate_block
    /\ \E ln \in RuleLineVocab :
          /\ ~IsRuleHeader(ln) /\ ~IsField(ln)
          /\ raw_line' = ln
          /\ nread' = nread + 1
          /\ RuleStep(rule_gate_line(RuleFrame, RStrip(ln)))
          /\ UNCHANGED history_vars

\* ... on any other line of the rule in progress
RuleOtherLine ==
    /\ parser = "parse_validation_rules" /\ pc = "scan" /\ nread < MaxLines
    /\ current # <<>> /\ ~gate_block
    /\ \E ln \in RuleLineVocab :
          /\ ~IsRuleHeader(ln) /\ ~IsField(ln)
          /\ raw_line' = ln
          /\ nread' = nread + 1
          /\ RuleStep(rule_fallback(RuleFrame, RStrip(ln)))
          /\ UNCHANGED history_vars

\* end of input: the final flush, the empty check and the return
RuleFinish ==
    /\ parser = "parse_validation_rules" /\ pc = "scan"
    /\ LET s == rule_finish(RuleFrame)
       IN /\ current' = s.current
          /\ seen' = s.seen
          /\ rules' = s.rules
          /\ gate_block' = s.gate_block
          /\ err' = s.err
          /\ pc' = IF Raised(s) THEN "failed" ELSE "returned"
          /\ result' = IF Raised(s) THEN result ELSE SortedById(s.rules)
    /\ UNCHANGED <<parser, contract_lines, nread, raw_line, anchors, resolver_vars,
                   extract_vars, call_vars, history_vars, tool_vars>>

Next ==
    \/ AnchorHeaderLine
    \/ AnchorBodyLine
    \/ AnchorFinish
    \/ RuleHeaderLine
    \/ RuleSkipLine
    \/ RuleFieldLine
    \/ RuleGateBlockLine
    \/ RuleOtherLine
    \/ RuleFinish

Spec == Init /\ [][Next]_vars

\* ------------------------------------------- find_section_line on its own
\* section references handed to find_section_line
RefVocab ==
    { <<>>,
      <<"§">>,
      <<"§", "1">>,
      <<"§", "2", ".", "2">>,
      <<"2", ".", "2">>,
      <<"§", "9">>,
      <<"x">> }

InitResolver ==
    /\ parser = "find_section_line"
    /\ contract_lines \in ContractDocs
    /\ section_ref \in RefVocab
    /\ line_number = 0
    /\ pc = "call"
    /\ nread = 0
    /\ raw_line = <<>>
    /\ current = <<>>
    /\ seen = {}
    /\ gate_block = FALSE
    /\ anchors = <<>>
    /\ rules = <<>>
    /\ err = NoError
    /\ result = <<>>
    /\ header_ids = {}
    /\ repeated_header = FALSE
    /\ arg_text = <<>>
    /\ ret_ref = <<>>
    /\ calls = 1
    /\ earlier_ids = {}
    /\ ToolsIdle

FindSectionLineCall ==
    /\ parser = "find_section_line" /\ pc = "call"
    /\ line_number' = find_section_line(contract_lines, section_ref)
    /\ pc' = "returned"
    /\ UNCHANGED <<parser, contract_lines, nread, raw_line, current, seen, gate_block,
                   anchors, rules, err, result, section_ref, history_vars,
                   extract_vars, call_vars, tool_vars>>

NextResolver == FindSectionLineCall

SpecResolver == InitResolver /\ [][NextResolver]_vars

\* --------------------------------------- extract_contract_ref on its own
\* tokens of the texts handed to extract_contract_ref
TextToks == {"§", " ", "\t", "1", "2", ".", "x", "Contract"}

InitExtract ==
    /\ parser = "extract_contract_ref"
    /\ arg_text \in SeqsUpTo(TextToks, MaxTextLen)
    /\ ret_ref = <<>>
    /\ pc = "call"
    /\ contract_lines = <<>>
    /\ section_ref = <<>>
    /\ line_number = 0
    /\ nread = 0
    /\ raw_line = <<>>
    /\ current = <<>>
    /\ seen = {}
    /\ gate_block = FALSE
    /\ anchors = <<>>
    /\ rules = <<>>
    /\ err = NoError
    /\ result = <<>>
    /\ header_ids = {}
    /\ repeated_header = FALSE
    /\ calls = 1
    /\ earlier_ids = {}
    /\ ToolsIdle

ExtractContractRefCall ==
    /\ parser = "extract_contract_ref" /\ pc = "call"
    /\ ret_ref' = extract_contract_ref(arg_text)
    /\ pc' = "returned"
    /\ UNCHANGED <<parser, contract_lines, nread, raw_line, current, seen, gate_block,
                   anchors, rules, err, result, resolver_vars, history_vars, arg_text,
                   call_vars, tool_vars>>

NextExtract == ExtractContractRefCall

SpecExtract == InitExtract /\ [][NextExtract]_vars

\* ------------------------------------------- one parser call after another
\* mutant of locals_at_entry: `seen` outlives the call
locals_at_entry_seen_kept(previous) ==
    [current |-> <<>>, seen |-> previous.seen, gate_block |-> FALSE,
     anchors |-> <<>>, rules |-> <<>>]

\* the locals that the first statements of parse_anchors and of
\* parse_validation_rules bind, whatever the call before left in `previous`
locals_at_entry(previous) ==
    [current |-> <<>>, seen |-> {}, gate_block |-> FALSE, anchors |-> <<>>, rules |-> <<>>]

\* the caller, after a call has returned or failed, calls the parser again
NewCall ==
    /\ parser \in {"parse_anchors", "parse_validation_rules"}
    /\ pc \in {"returned", "failed"}
    /\ calls < MaxCalls
    /\ calls' = calls + 1
    /\ earlier_ids' = earlier_ids \cup seen
    /\ LET entry == locals_at_entry([current |-> current, seen |-> seen,
                                     gate_block |-> gate_block, anchors |-> anchors,
                                     rules |-> rules])
       IN /\ current' = entry.current
          /\ seen' = entry.seen
          /\ gate_block' = entry.gate_block
          /\ anchors' = entry.anchors
          /\ rules' = entry.rules
    /\ pc' = "scan"
    /\ nread' = 0
    /\ raw_line' = <<>>
    /\ err' = NoError
    /\ result' = <<>>
    /\ header_ids' = {}
    /\ repeated_header' = FALSE
    /\ UNCHANGED <<parser, contract_lines, resolver_vars, extract_vars, tool_vars>>

\* the passes of either loop on documents of at most MaxCallLines lines, the ends
\* of input, and the next call
NextCalls ==
    \/ nread < MaxCallLines /\ AnchorHeaderLine
    \/ nread < MaxCallLines /\ AnchorBodyLine
    \/ AnchorFinish
    \/ nread < MaxCallLines /\ RuleHeaderLine
    \/ nread < MaxCallLines /\ RuleSkipLine
    \/ nread < MaxCallLines /\ RuleFieldLine
    \/ nread < MaxCallLines /\ RuleGateBlockLine
    \/ nread < MaxCallLines /\ RuleOtherLine
    \/ RuleFinish
    \/ NewCall

SpecCalls == Init /\ [][NextCalls]_vars

\* one call on a document of at most MaxCallLines lines: the loop takes the
\* next line or, at the end of the document, the call finishes
NextRun ==
    \/ nread < MaxCallLines /\ AnchorHeaderLine
    \/ nread < MaxCallLines /\ AnchorBodyLine
    \/ AnchorFinish
    \/ nread < MaxCallLines /\ RuleHeaderLine
    \/ nread < MaxCallLines /\ RuleSkipLine
    \/ nread < MaxCallLines /\ RuleFieldLine
    \/ nread < MaxCallLines /\ RuleGateBlockLine
    \/ nread < MaxCallLines /\ RuleOtherLine
    \/ RuleFinish

\* the step that ends a call: the lines are used up and the statements after
\* the loop run (the steps AnchorFinish and RuleFinish, and no others)
EndOfInput == pc = "scan" /\ nread' = nread /\ pc' \in {"returned", "failed"}

\* a document is finite, so the loop comes to its end
SpecRun == Init /\ [][NextRun]_vars /\ WF_pc(EndOfInput)

\* ------------------------------------- parse_contract_version on its own
\* the end of a greedy (?:\.[0-9]+)* from the token after e
RECURSIVE VersionTailEnd(_, _)
VersionTailEnd(s, e) ==
    IF e + 2 <= Len(s) /\ s[e + 1] = "." /\ s[e + 2] \in DigitToks
    THEN VersionTailEnd(s, SpanEnd(s, e + 2, DigitToks))
    ELSE e

\* CONTRACT_VERSION_RE.match(s), s stripped: ^#\s+\*\*Version:\s*([0-9]+(?:\.[0-9]+)*)
\* <<group 1>>, or <<>> when the line does not match
CONTRACT_VERSION_RE(s) ==
    LET k == SpanEnd(s, 2, SpaceToks)
        p == SpanEnd(s, k + 4, SpaceToks) + 1
        d == SpanEnd(s, p, DigitToks)
    IN IF /\ Len(s) >= k + 4 /\ s[1] = "#" /\ k >= 2
          /\ s[k + 1] = "**" /\ s[k + 2] = "Version" /\ s[k + 3] = ":"
          /\ d >= p
       THEN <<Slice(s, p, VersionTailEnd(s, d))>>
       ELSE <<>>

\* the loop of parse_contract_version from line idx on: <<version>>, or <<>>
RECURSIVE VersionFrom(_, _)
VersionFrom(lines, idx) ==
    IF idx > Len(lines) THEN <<>>
    ELSE IF CONTRACT_VERSION_RE(Strip(lines[idx])) # <<>>
    THEN CONTRACT_VERSION_RE(Strip(lines[idx]))
    ELSE VersionFrom(lines, idx + 1)

\* mutant of parse_contract_version: the last matching line wins
RECURSIVE parse_contract_version_last_match(_)
parse_contract_version_last_match(lines) ==
    IF lines = <<>> THEN <<>>
    ELSE IF CONTRACT_VERSION_RE(Strip(lines[Len(lines)])) # <<>>
    THEN CONTRACT_VERSION_RE(Strip(lines[Len(lines)]))
    ELSE parse_contract_version_last_match(Slice(lines, 1, Len(lines) - 1))

\* parse_contract_version(contract_text) on the lines of contract_text:
\* <<version>>, or <<>> when the function fails
parse_contract_version(lines) == VersionFrom(lines, 1)

\* lines of a contract document around its version line
VersionLineVocab ==
    { <<"#", " ", "**", "Version", ":", " ", "2", ".", "1", "**">>,
      <<" ", "#", " ", " ", "**", "Version", ":", "1">>,
      <<"#", " ", "**", "Version", ":", " ", "9", ".", "x">>,
      <<"#", " ", "**", "Version", ":", " ", "x">>,
      <<"##", " ", "**", "Version", ":", " ", "9">>,
      <<"#", "**", "Version", ":", " ", "9">>,
      <<"Version", ":", " ", "2">>,
      <<>> }

InitVersion ==
    /\ parser = "parse_contract_version"
    /\ contract_lines \in SeqsUpTo(VersionLineVocab, MaxVersionLines)
    /\ pc = "call"
    /\ err = NoError
    /\ ScanIdle
    /\ ToolsIdle

ParseContractVersionCall ==
    /\ parser = "parse_contract_version" /\ pc = "call"
    /\ LET found == parse_contract_version(contract_lines)
           s == IF found = <<>>
                THEN fail([err |-> err, pc |-> pc],
                          Message("contract version not found", "", <<>>))
                ELSE [err |-> err, pc |-> "returned"]
       IN /\ contract_version' = IF found = <<>> THEN contract_version ELSE found[1]
          /\ err' = s.err
          /\ pc' = s.pc
    /\ UNCHANGED <<parser, contract_lines, scan_vars, resolver_vars, extract_vars,
                   call_vars, certify_vars, exit_code, lint_vars>>

NextVersion == ParseContractVersionCall

SpecVersion == InitVersion /\ [][NextVersion]_vars

\* ------------------------------------------------------------ f1_certify
\* metric values are [t, v]: t is "num" (v the value in hundredths), "nan",
\* "str" (a string that is no number) or "none" (None, null or an absent key)
FEE_DRAG_RATIO_MAX == 35
REPLAY_COVERAGE_MIN == 9500
ATOMIC_NAKED_EVENTS_MAX == 0

REQUIRED_METRICS == <<"fee_drag_ratio", "replay_coverage_pct", "atomic_naked_events_24h">>

None == [t |-> "none", v |-> 0]

NaN == [t |-> "nan", v |-> 0]

NotANumber == [t |-> "str", v |-> 0]

Num(v) == [t |-> "num", v |-> v]

\* int(value) of a float: truncation toward zero (v and the result in hundredths)
IntOf(v) == IF v >= 0 THEN (v \div 100) * 100 ELSE 0 - (((0 - v) \div 100) * 100)

\* int(nan) and float("abc") raise ValueError, which the function catches
coerce_metric_value(key, value) ==
    IF value.t = "none" THEN None
    ELSE IF value.t = "str" THEN None
    ELSE IF key = "atomic_naked_events_24h"
         THEN IF value.t = "nan" THEN None ELSE Num(IntOf(value.v))
         ELSE value

\* raw is the dict read: raw.get(key) is None for an absent key
extract_metrics(raw) ==
    [key \in {REQUIRED_METRICS[i] : i \in 1 .. Len(REQUIRED_METRICS)} |->
        coerce_metric_value(key, raw[key])]

\* the comparisons of floats: every comparison with nan is false
Gt(a, n) == a.t = "num" /\ a.v > n

Ge(a, n) == a.t = "num" /\ a.v >= n

Lt(a, n) == a.t = "num" /\ a.v < n

StatusReason(kind, keys) == [kind |-> kind, keys |-> keys]

\* evaluate_metrics(metrics): [status, reasons]
evaluate_metrics(metrics) ==
    LET missing == SelectSeq(REQUIRED_METRICS, LAMBDA key : metrics[key].t = "none")
        r1 == IF Gt(metrics["atomic_naked_events_24h"], ATOMIC_NAKED_EVENTS_MAX)
              THEN <<StatusReason("atomic_naked_events_24h>0", <<>>)>> ELSE <<>>
        r2 == IF Ge(metrics["fee_drag_ratio"], FEE_DRAG_RATIO_MAX)
              THEN <<StatusReason("fee_drag_ratio>=0.35", <<>>)>> ELSE <<>>
        r3 == IF Lt(metrics["replay_coverage_pct"], REPLAY_COVERAGE_MIN)
              THEN <<StatusReason("replay_coverage_pct<95", <<>>)>> ELSE <<>>
    IN IF missing # <<>>
       THEN [status |-> "FAIL", reasons |-> <<StatusReason("missing_metrics", missing)>>]
       ELSE [status |-> IF r1 \o r2 \o r3 = <<>> THEN "PASS" ELSE "FAIL",
             reasons |-> r1 \o r2 \o r3]

DigitValue(t) ==
    CASE t = "0" -> 0
      [] t = "1" -> 1
      [] t = "2" -> 2
      [] t = "9" -> 9

\* int(digits) for a sequence of digit tokens
RECURSIVE IntOfDigits(_)
IntOfDigits(digits) ==
    IF digits = <<>> THEN 0
    ELSE 10 * IntOfDigits(Slice(digits, 1, Len(digits) - 1)) + DigitValue(digits[Len(digits)])

Multiplier(unit) ==
    CASE unit = "s" -> 1
      [] unit = "m" -> 60
      [] unit = "h" -> 3600
      [] unit = "d" -> 86400

\* mutant of parse_window_seconds: the unit is not applied
parse_window_seconds_unit_ignored(window) ==
    LET text == Lower(Strip(window))
        d == SpanEnd(text, 1, DigitToks)
    IN IF d >= 1 /\ Len(text) = d + 1 /\ text[d + 1] \in {"s", "m", "h", "d"}
       THEN <<IntOfDigits(Slice(text, 1, d))>>
       ELSE <<>>

\* parse_window_seconds(window): <<seconds>>, or <<>> when it raises ValueError
parse_window_seconds(window) ==
    LET text == Lower(Strip(window))
        d == SpanEnd(text, 1, DigitToks)
    IN IF d >= 1 /\ Len(text) = d + 1 /\ text[d + 1] \in {"s", "m", "h", "d"}
       THEN <<IntOfDigits(Slice(text, 1, d)) * Multiplier(text[d + 1])>>
       ELSE <<>>

\* main() for the command line a, the metrics read and the lines of CONTRACT.md:
\* [exit_code, cert, reasons, written, contract_version]
certify_main(a, raw, lines) ==
    LET window_seconds == parse_window_seconds(a.window)
        metrics == extract_metrics(raw)
        evaluated == evaluate_metrics(metrics)
        generated_ts_ms == a.now_ms
        expires_at_ts_ms == generated_ts_ms + (window_seconds[1] * 1000)
        version == parse_contract_version(lines)
    IN IF window_seconds = <<>>
       THEN [exit_code |-> "2", cert |-> <<>>, reasons |-> <<>>, written |-> {},
             contract_version |-> <<>>]
       ELSE IF version = <<>>
       THEN [exit_code |-> "raised", cert |-> <<>>, reasons |-> evaluated.reasons,
             written |-> {}, contract_version |-> <<>>]
       ELSE [exit_code |-> "0",
             cert |-> <<[status |-> evaluated.status,
                         generated_ts_ms |-> generated_ts_ms,
                         contract_version |-> version[1],
                         expires_at_ts_ms |-> expires_at_ts_ms,
                         release_gate_metrics |-> metrics]>>,
             reasons |-> evaluated.reasons,
             written |-> {"F1_CERT.json", "F1_CERT.md"},
             contract_version |-> version[1]]

\* values of --window
WindowVocab ==
    { <<"2", "h">>, <<"1", "0", "m">>, <<"9", "s">>, <<"1", "d">>, <<"0", "s">>,
      <<"0", "2", "d">>, <<"2", "H">>, <<" ", "2", "h", " ">>,
      <<"h">>, <<"2">>, <<"2", "h", "h">>, <<"2", " ", "h">>, <<"1", ".", "2", "h">>,
      <<"2", "x">>, <<>> }

\* values of --now-ms
NowVocab == {0, 1, 1700000}

RawFeeDragRatio == {None, NotANumber, NaN, Num(34), Num(35), Num(36)}

RawReplayCoverage == {None, NaN, Num(9499), Num(9500), Num(10000)}

RawAtomicNakedEvents == {None, NotANumber, NaN, Num(0 - 100), Num(0), Num(90), Num(100)}

InitCertify ==
    /\ parser = "f1_certify"
    /\ args \in [window : WindowVocab, now_ms : NowVocab]
    /\ metrics_raw \in [fee_drag_ratio : RawFeeDragRatio,
                         replay_coverage_pct : RawReplayCoverage,
                         atomic_naked_events_24h : RawAtomicNakedEvents]
    /\ contract_lines \in {<<>>, <<<<"#", " ", "**", "Version", ":", " ", "2", ".", "1", "**">>>>}
    /\ pc = "call"
    /\ err = NoError
    /\ ScanIdle
    /\ contract_version = <<>>
    /\ cert = <<>>
    /\ reasons = <<>>
    /\ written = {}
    /\ exit_code = "none"
    /\ lint_env = <<>>
    /\ failures = <<>>

CertifyMain ==
    /\ parser = "f1_certify" /\ pc = "call"
    /\ LET out == certify_main(args, metrics_raw, contract_lines)
       IN /\ exit_code' = out.exit_code
          /\ cert' = out.cert
          /\ reasons' = out.reasons
          /\ written' = out.written
          /\ contract_version' = out.contract_version
          /\ pc' = IF out.exit_code = "raised" THEN "failed" ELSE "returned"
    /\ UNCHANGED <<parser, contract_lines, err, scan_vars, resolver_vars, extract_vars,
                   call_vars, args, metrics_raw, lint_vars>>

NextCertify == CertifyMain

SpecCertify == InitCertify /\ [][NextCertify]_vars

\* -------------------------------------------------- vendor_docs_lint_rust
\* lint_env is what main() finds: stage names the first check of lines 113-148
\* that does not let it through ("ok" when all do), crates is the list loaded
\* from CRATES_OF_INTEREST.yaml, new_pkgs and old_pkgs map a crate to the set of
\* its versions in the current and in the base Cargo.lock, metadata maps a
\* (crate, version) to the metadata.json found, features is the features.txt found
LintCrates == {"a", "b"}

LintVersions == <<"1", "2">>

CurrentLockHash == "sha-current"

MissingFile == [kind |-> "missing", crate |-> "", version |-> "", cargo_lock_sha256 |-> ""]

InvalidJson == [kind |-> "invalid_json", crate |-> "", version |-> "", cargo_lock_sha256 |-> ""]

\* JSON that is not an object, such as [] : it has no get
JsonArray == [kind |-> "array", crate |-> "", version |-> "", cargo_lock_sha256 |-> ""]

JsonObject(crate, version, hash) ==
    [kind |-> "object", crate |-> crate, version |-> version, cargo_lock_sha256 |-> hash]

\* sorted(new_versions - old_versions)
new_only(env, crate) ==
    SelectSeq(LintVersions, LAMBDA v : v \in env.new_pkgs[crate] \ env.old_pkgs[crate])

\* the (crate, version) pairs in the order the loops of lines 163-172 visit them
RECURSIVE ChangedPairs(_, _)
ChangedPairs(env, crates) ==
    IF crates = <<>> THEN <<>>
    ELSE [k \in 1 .. Len(new_only(env, Head(crates))) |->
             <<Head(crates), new_only(env, Head(crates))[k]>>]
         \o ChangedPairs(env, Tail(crates))

LintFailure(kind, pair) == [kind |-> kind, crate |-> pair[1], version |-> pair[2]]

\* the failures of features.txt (lines 196-210), none unless REQUIRE_FEATURES_TXT=1
features_failures(env, pair) ==
    IF env.features = "present" \/ ~env.require_features THEN <<>>
    ELSE IF env.features = "missing" THEN <<LintFailure("Missing features.txt", pair)>>
    ELSE <<LintFailure("Empty features.txt", pair)>>

\* the body of the inner loop, lines 173-210: the failures it appends, or
\* raised when md.get is called on a value that is no dict (AttributeError)
check_version(env, pair) ==
    LET md == env.metadata[pair]
    IN IF md.kind = "missing"
       THEN [raised |-> FALSE, failures |-> <<LintFailure("Missing snapshot", pair)>>]
       ELSE IF md.kind = "invalid_json"
       THEN [raised |-> FALSE, failures |-> <<LintFailure("Invalid JSON", pair)>>]
       ELSE IF md.kind # "object"
       THEN [raised |-> TRUE, failures |-> <<>>]
       ELSE [raised |-> FALSE,
             failures |->
                 (IF md.crate # pair[1] \/ md.version # pair[2]
                  THEN <<LintFailure("crate/version mismatch", pair)>> ELSE <<>>)
                 \o (IF md.cargo_lock_sha256 # CurrentLockHash
                     THEN <<LintFailure("lock hash mismatch", pair)>> ELSE <<>>)
                 \o features_failures(env, pair)]

\* the loops of lines 163-210 over the pairs left, acc the failures so far
RECURSIVE check_versions(_, _, _)
check_versions(env, pairs, acc) ==
    IF pairs = <<>> THEN [raised |-> FALSE, failures |-> acc]
    ELSE LET one == check_version(env, Head(pairs))
         IN IF one.raised THEN [raised |-> TRUE, failures |-> acc]
            ELSE check_versions(env, Tail(pairs), acc \o one.failures)

\* main(): [exit_code, failures]
lint_main(env) ==
    LET pairs == ChangedPairs(env, env.crates)
        checked == Len(pairs)
        looped == check_versions(env, pairs, <<>>)
        Exit(code) == [exit_code |-> code, failures |-> <<>>]
    IN IF env.stage = "no_lock" THEN Exit("2")
       ELSE IF env.stage = "no_yaml" THEN Exit("2")
       ELSE IF env.stage \in {"no_git", "no_ref"}
       THEN (IF env.is_ci THEN Exit("2") ELSE Exit("0"))
       ELSE IF env.stage = "diff_failed" THEN Exit("2")
       ELSE IF env.stage = "unchanged" THEN Exit("0")
       ELSE IF env.stage = "show_failed" THEN Exit("2")
       ELSE IF env.crates = <<>> THEN Exit("2")
       ELSE IF looped.raised THEN [exit_code |-> "raised", failures |-> looped.failures]
       ELSE IF checked = 0 THEN Exit("0")
       ELSE IF looped.failures # <<>> THEN [exit_code |-> "1", failures |-> looped.failures]
       ELSE Exit("0")

\* the metadata.json files tried for one (crate, version)
MetadataVocab(crate, version) ==
    { MissingFile, InvalidJson, JsonArray,
      JsonObject(crate, version, CurrentLockHash),
      JsonObject("other", version, CurrentLockHash),
      JsonObject(crate, "0", CurrentLockHash),
      JsonObject(crate, version, "sha-base"),
      JsonObject("other", version, "sha-base") }

\* one metadata.json for each changed pair, none for the others
RECURSIVE MetadataChoices(_)
MetadataChoices(pairs) ==
    IF pairs = <<>> THEN {[q \in LintCrates \X {"1", "2"} |-> MissingFile]}
    ELSE { [f EXCEPT ![Head(pairs)] = md] :
             f \in MetadataChoices(Tail(pairs)),
             md \in MetadataVocab(Head(pairs)[1], Head(pairs)[2]) }

LintLocks ==
    [stage : {"ok"}, is_ci : {FALSE}, require_features : BOOLEAN,
     crates : {<<>>, <<"a">>, <<"b", "a">>},
     new_pkgs : {[a |-> n, b |-> m] : n \in {{}, {"1"}, {"1", "2"}}, m \in {{}, {"1"}}},
     old_pkgs : [LintCrates -> {{}, {"1"}}],
     features : {"missing", "empty", "present"}]

LintStopped ==
    [stage : {"no_lock", "no_yaml", "no_git", "no_ref", "diff_failed", "unchanged", "show_failed"},
     is_ci : BOOLEAN, require_features : {FALSE}, crates : {<<"a">>},
     new_pkgs : {[c \in LintCrates |-> {"1"}]}, old_pkgs : {[c \in LintCrates |-> {}]},
     features : {"present"}]

WithMetadata(e, md) ==
    [stage |-> e.stage, is_ci |-> e.is_ci, require_features |-> e.require_features,
     crates |-> e.crates, new_pkgs |-> e.new_pkgs, old_pkgs |-> e.old_pkgs,
     features |-> e.features, metadata |-> md]

LintEnvs ==
    UNION { { WithMetadata(e, md) : md \in MetadataChoices(ChangedPairs(e, e.crates)) } :
            e \in LintLocks \cup LintStopped }

InitLint ==
    /\ parser = "vendor_docs_lint_rust"
    /\ lint_env \in {<<e>> : e \in LintEnvs}
    /\ contract_lines = <<>>
    /\ pc = "call"
    /\ err = NoError
    /\ ScanIdle
    /\ contract_version = <<>>
    /\ args = [window |-> <<>>, now_ms |-> 0]
    /\ metrics_raw = <<>>
    /\ cert = <<>>
    /\ reasons = <<>>
    /\ written = {}
    /\ exit_code = "none"
    /\ failures = <<>>

LintMain ==
    /\ parser = "vendor_docs_lint_rust" /\ pc = "call"
    /\ LET out == lint_main(lint_env[1])
       IN /\ exit_code' = out.exit_code
          /\ failures' = out.failures
          /\ pc' = IF out.exit_code = "raised" THEN "failed" ELSE "returned"
    /\ UNCHANGED <<parser, contract_lines, err, scan_vars, resolver_vars, extract_vars,
                   call_vars, contract_version, certify_vars, lint_env>>

NextLint == LintMain

SpecLint == InitLint /\ [][NextLint]_vars

\* ------------------------------------------------------------- claims
Ids(records) == {records[i].id : i \in 1 .. Len(records)}

PairwiseDistinctIds(records) ==
    \A i, j \in 1 .. Len(records) : i # j => records[i].id # records[j].id

Scanning == parser \in {"parse_anchors", "parse_validation_rules"}

AnchorHeaderOf(ln) == ANCHOR_HEADER_RE(Strip(RStrip(ln)))

\* this step reads a line that the parser in use recognizes as a header
ReadsHeader ==
    /\ nread' = nread + 1
    /\ \/ parser = "parse_anchors" /\ AnchorHeaderOf(raw_line') # <<>>
       \/ parser = "parse_validation_rules" /\ IsRuleHeader(raw_line')

\* this step reads a line that is no header
ReadsBodyLine == nread' = nread + 1 /\ ~ReadsHeader

\* this step is the end of input
ReachesEnd == pc = "scan" /\ nread' = nread /\ pc' # "scan"

\* this step invokes flush on a record in progress
FlushesRecord == pc = "scan" /\ current # <<>> /\ (ReadsHeader \/ ReachesEnd)

\* C1: the records accumulated so far have pairwise distinct ids, all of them in
\* `seen`, after every prefix of lines; so has the returned list.
C1_UniqueIds ==
    Scanning =>
        /\ PairwiseDistinctIds(anchors) /\ Ids(anchors) \subseteq seen
        /\ PairwiseDistinctIds(rules) /\ Ids(rules) \subseteq seen
        /\ pc = "returned" => PairwiseDistinctIds(result)

\* two anchors were flushed and a third header repeats one of their ids
C1_Witness ==
    /\ parser = "parse_anchors"
    /\ Len(anchors) = 2
    /\ repeated_header
    /\ pc = "failed" /\ err.kind = "duplicate anchor id"

\* C2 as stated: a document with the same id in two recognized headers fails
\* with the duplicate-id error, whatever else it contains.
C2_DuplicateAlwaysReported ==
    (Scanning /\ repeated_header /\ pc \in {"returned", "failed"}) =>
        /\ pc = "failed"
        /\ err.kind \in {"duplicate anchor id", "duplicate validation rule id"}

RequiredPresent(cur) ==
    IF parser = "parse_anchors" THEN cur.contract_ref # <<>>
    ELSE cur.title # <<>> /\ cur.contract_ref # <<>> /\ cur.rule # <<>>

\* C2 amended: such a document never returns a list, and the flush of a record
\* whose id was flushed before raises the duplicate-id error when the record has
\* its required fields, the missing-contract-ref / missing-fields error otherwise.
C2_DuplicateFails ==
    /\ [](Scanning /\ repeated_header => pc # "returned")
    /\ [][(Scanning /\ FlushesRecord /\ current[1].id \in seen) =>
            /\ pc' = "failed"
            /\ anchors' = anchors /\ rules' = rules
            /\ IF RequiredPresent(current[1])
               THEN err'.kind \in {"duplicate anchor id", "duplicate validation rule id"}
               ELSE err'.kind \in {"anchor missing contract ref",
                                   "validation rule missing fields"}]_vars

\* a rule id read twice, the second record complete: the duplicate error
C2_Witness ==
    /\ parser = "parse_validation_rules"
    /\ repeated_header
    /\ current # <<>> /\ current[1].id \in Ids(rules) /\ RequiredPresent(current[1])
    /\ pc = "failed" /\ err.kind = "duplicate validation rule id"

\* C3: a raised failure is absorbing: nothing is read, appended or returned
\* afterwards, and the caller gets no list.
C3_FailClosed ==
    /\ [](Scanning /\ err # NoError => pc = "failed" /\ result = <<>>)
    /\ [][(Scanning /\ err # NoError) =>
            /\ pc' = "failed" /\ err' = err
            /\ nread' = nread /\ raw_line' = raw_line
            /\ current' = current /\ seen' = seen /\ gate_block' = gate_block
            /\ anchors' = anchors /\ rules' = rules /\ result' = result]_vars

\* a failure raised after one record had been flushed, with lines left to read
C3_Witness ==
    /\ pc = "failed"
    /\ err.kind = "anchor contract ref not found"
    /\ Len(anchors) = 1
    /\ nread < MaxLines

\* the line contains ref, or ref without its leading "§", as a substring
\* (every line contains the empty string)
ContainsRef(ln, ref) ==
    \/ IsSubstring(ref, ln)
    \/ ref # <<>> /\ Head(ref) = "§" /\ IsSubstring(Tail(ref), ln)

\* the same, counting only the forms that are not empty
ContainsNonEmptyRef(ln, ref) ==
    \/ ref # <<>> /\ IsSubstring(ref, ln)
    \/ ref # <<>> /\ Head(ref) = "§" /\ Tail(ref) # <<>> /\ IsSubstring(Tail(ref), ln)

AnchorsHeld == IF pc = "returned" THEN anchors \o result ELSE anchors

C5_FirstContainingLine ==
    (parser = "find_section_line" /\ pc = "returned") =>
        /\ line_number \in 0 .. Len(contract_lines)
        /\ line_number = 0 <=>
              \A m \in 1 .. Len(contract_lines) : ~ContainsRef(contract_lines[m], section_ref)
        /\ line_number # 0 =>
              /\ ContainsRef(contract_lines[line_number], section_ref)
              /\ \A m \in 1 .. (line_number - 1) :
                    ~ContainsRef(contract_lines[m], section_ref)

\* C5 amended: ... a line that contains a non-empty form of ref (ref itself, or
\* ref without its "§"); 0 exactly when no line contains a non-empty form.
C5_FirstResolvingLine ==
    (parser = "find_section_line" /\ pc = "returned") =>
        /\ line_number \in 0 .. Len(contract_lines)
        /\ line_number = 0 <=>
              \A m \in 1 .. Len(contract_lines) :
                  ~ContainsNonEmptyRef(contract_lines[m], section_ref)
        /\ line_number # 0 =>
              /\ ContainsNonEmptyRef(contract_lines[line_number], section_ref)
              /\ \A m \in 1 .. (line_number - 1) :
                    ~ContainsNonEmptyRef(contract_lines[m], section_ref)

\* the second line is the first to hold the reference, in its unprefixed form only
C5_Witness ==
    /\ parser = "find_section_line" /\ pc = "returned"
    /\ line_number = 2
    /\ section_ref = <<"§", "2", ".", "2">>
    /\ ~IsSubstring(section_ref, contract_lines[2])

FlushErrors ==
    {"anchor missing contract ref", "duplicate anchor id", "anchor contract ref not found"}

\* C6: the flush of an in-progress anchor fails with "missing contract ref" if
\* contract_ref is empty, else with "duplicate anchor id" if the id was flushed
\* before, else with "contract ref not found" if no contract line resolves it;
\* the anchor is appended exactly when none of the three applies.
C6_AnchorFlushOrder ==
    [][(parser = "parse_anchors" /\ FlushesRecord) =>
          LET cur == current[1]
          IN IF cur.contract_ref = <<>>
             THEN /\ pc' = "failed" /\ err'.kind = "anchor missing contract ref"
                  /\ anchors' = anchors
             ELSE IF cur.id \in seen
             THEN /\ pc' = "failed" /\ err'.kind = "duplicate anchor id"
                  /\ anchors' = anchors
             ELSE IF \A m \in 1 .. Len(contract_lines) :
                        ~ContainsNonEmptyRef(contract_lines[m], cur.contract_ref)
             THEN /\ pc' = "failed" /\ err'.kind = "anchor contract ref not found"
                  /\ anchors' = anchors
             ELSE /\ Len(anchors') = Len(anchors) + 1
                  /\ SubSeq(anchors', 1, Len(anchors)) = anchors
                  /\ anchors'[Len(anchors')].id = cur.id
                  /\ anchors'[Len(anchors')].title = cur.title
                  /\ anchors'[Len(anchors')].contract_ref = cur.contract_ref
                  /\ err'.kind \notin FlushErrors]_vars

\* a record without contract_ref whose id was flushed before: the first check wins
C6_Witness ==
    /\ parser = "parse_anchors" /\ pc = "failed"
    /\ err.kind = "anchor missing contract ref"
    /\ current # <<>> /\ current[1].id \in seen

RulesHeld == IF pc = "returned" THEN rules \o result ELSE rules

ExpectedMissing(cur) ==
    (IF cur.id = "" THEN <<"id">> ELSE <<>>)
    \o (IF cur.title = <<>> THEN <<"title">> ELSE <<>>)
    \o (IF cur.contract_ref = <<>> THEN <<"contract_ref">> ELSE <<>>)
    \o (IF cur.rule = <<>> THEN <<"rule">> ELSE <<>>)

\* C7: every rule held has non-empty id, title, contract_ref and rule, every
\* anchor held non-empty id, title and contract_ref; a rule flushed with any of
\* the four empty fails with one error naming all the missing fields.
C7_RequiredFields ==
    /\ [](parser = "parse_validation_rules" =>
            \A i \in 1 .. Len(RulesHeld) :
                /\ RulesHeld[i].id # "" /\ RulesHeld[i].title # <<>>
                /\ RulesHeld[i].contract_ref # <<>> /\ RulesHeld[i].rule # <<>>)
    /\ [](parser = "parse_anchors" =>
            \A i \in 1 .. Len(AnchorsHeld) :
                /\ AnchorsHeld[i].id # "" /\ AnchorsHeld[i].title # <<>>
                /\ AnchorsHeld[i].contract_ref # <<>>)
    /\ [][(parser = "parse_validation_rules" /\ FlushesRecord
             /\ ExpectedMissing(current[1]) # <<>>) =>
            /\ pc' = "failed"
            /\ err'.kind = "validation rule missing fields"
            /\ err'.missing = ExpectedMissing(current[1])
            /\ rules' = rules]_vars

\* a rule flushed without contract_ref and without rule: both are named
C7_Witness ==
    /\ parser = "parse_validation_rules" /\ pc = "failed"
    /\ err.kind = "validation rule missing fields"
    /\ err.missing = <<"contract_ref", "rule">>

\* the line carries "##", an id of the parser in use and ":", and no title: nothing
\* after the colon or, for an anchor, only a "(Contract ...)" suffix
TitlelessHeader(ln) ==
    LET t == Strip(ln)
        k == SpanEnd(t, 2, SpaceToks)
        rest == Strip(Slice(t, k + 3, Len(t)))
        ids == IF parser = "parse_anchors" THEN AnchorIdToks ELSE RuleIdToks
    IN /\ Len(t) >= 4 /\ t[1] = "##" /\ k >= 2 /\ k + 2 <= Len(t)
       /\ t[k + 1] \in ids /\ t[k + 2] = ":"
       /\ \/ rest = <<>>
          \/ /\ parser = "parse_anchors"
             /\ CONTRACT_REF_RE(rest) # <<>>
             /\ CONTRACT_REF_RE(rest)[1] = 1

\* C8: once a header line that carries an id and no title has been read, the
\* parse has failed.
C8_TitlelessHeaderIsFatal ==
    (Scanning /\ nread > 0 /\ TitlelessHeader(raw_line)) => pc = "failed"

\* the lower-cased label of a field line, <<>> for any other line
FieldLabelLower(ln) ==
    IF IsField(ln) THEN Lower(Strip(FIELD_RE(Strip(RStrip(ln)))[1])) ELSE <<>>

FieldValue(ln) == Strip(FIELD_RE(Strip(RStrip(ln)))[2])

\* this step reads a non-header line while a rule with a non-empty `rule` is in
\* progress
ReadsLineOfPopulatedRule ==
    /\ parser = "parse_validation_rules" /\ pc = "scan"
    /\ current # <<>> /\ current[1].rule # <<>>
    /\ ReadsBodyLine

\* this step flushes the rule in progress and appends it
AppendsRule ==
    parser = "parse_validation_rules" /\ FlushesRecord /\ Len(rules') = Len(rules) + 1

\* C9 as stated: once `rule` is non-empty, no later line of the record changes it.
C9_RuleNeverOverwritten ==
    [][ReadsLineOfPopulatedRule => current'[1].rule = current[1].rule]_vars

\* C9 amended: once `rule` is non-empty, only a later "Rule" field line changes
\* it (to that line's value); the flushed record carries the value `rule` has at
\* the flush.
C9_OnlyRuleFieldOverwrites ==
    /\ [][ReadsLineOfPopulatedRule =>
            IF FieldLabelLower(raw_line') = <<"rule">>
            THEN current'[1].rule = FieldValue(raw_line')
            ELSE current'[1].rule = current[1].rule]_vars
    /\ [][AppendsRule => rules'[Len(rules')].rule = current[1].rule]_vars

\* a Trigger value survived a later Failure Mode line
C9_Witness ==
    /\ parser = "parse_validation_rules" /\ pc = "scan"
    /\ current # <<>> /\ current[1].rule = <<"t1">>
    /\ FieldLabelLower(raw_line) = <<"failure", " ", "mode">>

NoDuplicates(items) ==
    \A i, j \in 1 .. Len(items) : i # j => items[i] # items[j]

\* the items whose value does not occur earlier in the list, in list order
RECURSIVE FirstOccurrences(_, _)
FirstOccurrences(items, n) ==
    IF n = 0 THEN <<>>
    ELSE FirstOccurrences(items, n - 1)
         \o (IF \E j \in 1 .. (n - 1) : items[j] = items[n] THEN <<>> ELSE <<items[n]>>)

\* C10: in every rule held, gate_ids and every list of `fields` are free of
\* duplicates and the lists of `fields` are non-empty; a flushed rule gets the
\* first occurrences, in order, of the gate ids and field values collected.
C10_DedupPreservesOrder ==
    /\ [](parser = "parse_validation_rules" =>
            \A i \in 1 .. Len(RulesHeld) :
                /\ NoDuplicates(RulesHeld[i].gate_ids)
                /\ \A key \in DOMAIN RulesHeld[i].fields :
                      /\ RulesHeld[i].fields[key] # <<>>
                      /\ NoDuplicates(RulesHeld[i].fields[key]))
    /\ [][AppendsRule =>
            LET cur == current[1]
                new == rules'[Len(rules')]
            IN /\ new.gate_ids = FirstOccurrences(cur.gate_ids, Len(cur.gate_ids))
               /\ DOMAIN new.fields = DOMAIN cur.fields
               /\ \A key \in DOMAIN cur.fields :
                     new.fields[key] =
                         FirstOccurrences(cur.fields[key], Len(cur.fields[key]))]_vars

\* occurrences VR-010, VR-010 (inline) and VR-011 (list block) were returned as
\* [VR-010, VR-011]
C10_Witness ==
    /\ parser = "parse_validation_rules" /\ pc = "returned"
    /\ \E i \in 1 .. Len(result) : result[i].gate_ids = <<"VR-010", "VR-011">>

\* this step reads a "Gate ID" field line whose non-empty value holds no gate id
ReadsMalformedGateIdField ==
    /\ parser = "parse_validation_rules" /\ pc = "scan"
    /\ ReadsBodyLine
    /\ FieldLabelLower(raw_line') = <<"gate", " ", "id">>
    /\ FieldValue(raw_line') # <<>>
    /\ \A i \in 1 .. Len(raw_line') : raw_line'[i] \notin GateIdToks

\* this step reads, while a gate id list block is open, a non-blank line that
\* begins with "-" or "*" and holds no gate id
ReadsMalformedGateListEntry ==
    /\ parser = "parse_validation_rules" /\ pc = "scan"
    /\ current # <<>> /\ gate_block
    /\ ReadsBodyLine
    /\ ~IsField(raw_line')
    /\ Strip(raw_line') # <<>>
    /\ Head(Strip(raw_line')) \in {"-", "*", "**"}
    /\ \A i \in 1 .. Len(raw_line') : raw_line'[i] \notin GateIdToks

FailsWith(kind) == pc' = "failed" /\ err'.kind = kind

\* C11 as stated: a "Gate ID" field with a non-empty value without a gate id
\* fails at the step that reads it, wherever in the document it stands.
C11_MalformedGateIdFieldAlwaysFatal ==
    [][ReadsMalformedGateIdField => FailsWith("gate id field missing VR-XXX value")]_vars

\* C11 amended: while a rule is in progress, a "Gate ID" field with a non-empty
\* value without a gate id fails at the step that reads it with "gate id field
\* missing VR-XXX value"; while a gate id list block is open, a non-blank line
\* that begins with "-" or "*" and holds no gate id fails at the step that reads
\* it with "gate id list entry missing VR-XXX value".
C11_MalformedGateIdFatalInRule ==
    /\ [][(ReadsMalformedGateIdField /\ current # <<>>) =>
            /\ FailsWith("gate id field missing VR-XXX value")
            /\ err'.id = current[1].id]_vars
    /\ [][ReadsMalformedGateListEntry =>
            /\ FailsWith("gate id list entry missing VR-XXX value")
            /\ err'.id = current[1].id]_vars

\* header VR-001, an empty Gate ID field, then "- not a gate id": failed on line 3
C11_Witness ==
    /\ parser = "parse_validation_rules" /\ pc = "failed" /\ nread = 3
    /\ err.kind = "gate id list entry missing VR-XXX value" /\ err.id = "VR-001"
    /\ raw_line = <<"-", " ", "not", " ", "a", " ", "gate", " ", "id">>

RecognizedLabels ==
    { <<"contract", " ", "ref">>, <<"contract", " ", "citation">>, <<"rule">>,
      <<"trigger">>, <<"failure", " ", "mode">>, <<"gate", " ", "id">> }

\* this step reads a field line with a recognized label while a rule is in progress
ReadsRecognizedField ==
    /\ parser = "parse_validation_rules" /\ pc = "scan" /\ current # <<>>
    /\ ReadsBodyLine
    /\ FieldLabelLower(raw_line') \in RecognizedLabels

\* C12: a field line with a recognized label (contract ref, contract citation,
\* rule, trigger, failure mode, gate id) never adds a key or a value to `fields`.
C12_RecognizedLabelsStayOutOfFields ==
    [][ReadsRecognizedField => current'[1].fields = current[1].fields]_vars

NoRecordsKind ==
    IF parser = "parse_anchors" THEN "no anchors parsed" ELSE "no validation rules parsed"

\* C13: the end of input reached with no record in progress and none accumulated
\* fails with "no anchors parsed" / "no validation rules parsed"; an end of input
\* that leaves the list empty always fails; every list returned is non-empty.
C13_EmptyResultFails ==
    /\ [][(Scanning /\ ReachesEnd /\ current = <<>> /\ anchors = <<>> /\ rules = <<>>) =>
            FailsWith(NoRecordsKind)]_vars
    /\ [][(Scanning /\ ReachesEnd /\ anchors' = <<>> /\ rules' = <<>>) => pc' = "failed"]_vars
    /\ []((Scanning /\ pc = "returned") => result # <<>>)

\* an anchors document of two lines without any header failed with "no anchors
\* parsed"
C13_Witness ==
    /\ parser = "parse_anchors" /\ pc = "failed" /\ nread = 2
    /\ header_ids = {} /\ err.kind = "no anchors parsed"

\* the list accumulated by the parser in use, in the order of the document
Accumulated == IF parser = "parse_anchors" THEN anchors ELSE rules

StrictlyAscendingById(records) ==
    \A i \in 1 .. (Len(records) - 1) : IdRank(records[i].id) < IdRank(records[i + 1].id)

\* C14: the returned list is strictly ascending by id and holds exactly the
\* records accumulated, each once, whatever order the document gave them in; so
\* the same records accumulated in another order give the same list.
C14_SortedById ==
    (Scanning /\ pc = "returned") =>
        /\ StrictlyAscendingById(result)
        /\ Len(result) = Len(Accumulated)
        /\ {result[i] : i \in 1 .. Len(result)} =
              {Accumulated[i] : i \in 1 .. Len(Accumulated)}

\* three anchors whose headers came in descending order of id were returned
C14_Witness ==
    /\ parser = "parse_anchors" /\ pc = "returned"
    /\ Len(anchors) = 3
    /\ \A i \in 1 .. 2 : IdRank(anchors[i + 1].id) < IdRank(anchors[i].id)

DuplicateIdErrors == {"duplicate anchor id", "duplicate validation rule id"}

\* C16: every call of a parser starts with `current` none, `seen` empty,
\* gate_block false and an empty list, whatever the call before it left; a
\* duplicate-id failure is raised only when the document of the call itself has
\* the id in two headers, never because of an id flushed by an earlier call.
C16_NoStateSurvivesACall ==
    /\ [][(calls' = calls + 1) =>
            /\ current' = <<>> /\ seen' = {} /\ gate_block' = FALSE
            /\ anchors' = <<>> /\ rules' = <<>>]_vars
    /\ []((Scanning /\ err.kind \in DuplicateIdErrors) => repeated_header)
    /\ []((Scanning /\ nread = 0) =>
            /\ current = <<>> /\ seen = {} /\ ~gate_block /\ anchors = <<>> /\ rules = <<>>)

\* the second call returned a record whose id the first call had flushed
C16_Witness ==
    /\ calls = 2 /\ pc = "returned"
    /\ Ids(result) \cap earlier_ids # {}

\* the index of the first token after i that is no whitespace (Len + 1 if none)
AfterBlanks(s, i) ==
    IF \E p \in (i + 1) .. Len(s) : s[p] \notin SpaceToks
    THEN CHOOSE p \in (i + 1) .. Len(s) :
             s[p] \notin SpaceToks /\ \A q \in (i + 1) .. (p - 1) : s[q] \in SpaceToks
    ELSE Len(s) + 1

\* q is digits followed by any number of segments "." alphanumerics
IsDottedPath(q) ==
    /\ q # <<>>
    /\ q[1] \in DigitToks
    /\ q[Len(q)] # "."
    /\ \A k \in 1 .. Len(q) : q[k] \in AlnumToks \cup {"."}
    /\ \A k \in 1 .. (Len(q) - 1) : ~(q[k] = "." /\ q[k + 1] = ".")
    /\ \A k \in 1 .. Len(q) :
          (\A j \in 1 .. k : q[j] # ".") => q[k] \in DigitToks

\* the longest dotted path of s that starts at p
LongestPathAt(s, p) ==
    LET Ends == {e \in p .. Len(s) : IsDottedPath(SubSeq(s, p, e))}
    IN SubSeq(s, p, CHOOSE e \in Ends : \A f \in Ends : f <= e)

\* the places of s where a "§"-form reference starts
SectionForms(s) ==
    {i \in 1 .. Len(s) :
        s[i] = "§" /\ AfterBlanks(s, i) <= Len(s) /\ s[AfterBlanks(s, i)] \in DigitToks}

\* the places of s where a "Contract <path>" phrase starts
ContractForms(s) ==
    {i \in 1 .. Len(s) :
        /\ s[i] = "Contract" /\ AfterBlanks(s, i) > i + 1
        /\ AfterBlanks(s, i) <= Len(s) /\ s[AfterBlanks(s, i)] \in DigitToks}

First(S) == CHOOSE i \in S : \A j \in S : i <= j

\* C17: extract_contract_ref returns the first "§"-form reference of the text
\* without its spaces whenever there is one, else "§" and the dotted path of the
\* first "Contract <path>" phrase, else the empty string; a non-empty result
\* starts with "§" and holds no space.
C17_SectionFormWins ==
    (parser = "extract_contract_ref" /\ pc = "returned") =>
        LET S == SectionForms(arg_text)
            C == ContractForms(arg_text)
        IN /\ S # {} =>
                 ret_ref = SelectSeq(SubSeq(arg_text, First(S), AfterBlanks(arg_text, First(S)) - 1),
                                     LAMBDA t : t # " ")
                           \o LongestPathAt(arg_text, AfterBlanks(arg_text, First(S)))
           /\ (S = {} /\ C # {}) =>
                 ret_ref = <<"§">> \o LongestPathAt(arg_text, AfterBlanks(arg_text, First(C)))
           /\ (S = {} /\ C = {}) => ret_ref = <<>>
           /\ ret_ref # <<>> =>
                 Head(ret_ref) = "§" /\ \A k \in 1 .. Len(ret_ref) : ret_ref[k] # " "

\* a text with a "Contract 1" phrase before a "§ 2" reference gave "§2"
C17_Witness ==
    /\ parser = "extract_contract_ref" /\ pc = "returned"
    /\ ContractForms(arg_text) # {} /\ SectionForms(arg_text) # {}
    /\ First(ContractForms(arg_text)) < First(SectionForms(arg_text))
    /\ ret_ref = <<"§", "2">>
    /\ \E k \in 1 .. Len(arg_text) : arg_text[k] = "1"

\* r is "§" followed by a dotted path
IsCanonicalRef(r) == r # <<>> /\ Head(r) = "§" /\ IsDottedPath(Tail(r))

\* C18: the contract_ref of every anchor held by parse_anchors is a "§"-prefixed
\* dotted path, whether it came from the header's suffix or from a later line.
C18_AnchorRefCanonical ==
    parser = "parse_anchors" =>
        \A i \in 1 .. Len(AnchorsHeld) : IsCanonicalRef(AnchorsHeld[i].contract_ref)

\* the place of "(" in a stripped header "## <id>: <title> (Contract <R>)", 0 if
\* the line has not that form
SuffixStart(t) ==
    IF /\ Len(t) >= 8 /\ t[1] = "##" /\ t[2] = " " /\ t[3] \in AnchorIdToks /\ t[4] = ":"
       /\ t[Len(t)] = ")"
       /\ \E i \in 5 .. (Len(t) - 3) : t[i] = "(" /\ t[i + 1] = "Contract" /\ t[i + 2] = " "
    THEN CHOOSE i \in 5 .. (Len(t) - 3) : t[i] = "(" /\ t[i + 1] = "Contract" /\ t[i + 2] = " "
    ELSE 0

HeaderTitle(t) == Strip(SubSeq(t, 5, SuffixStart(t) - 1))

HeaderRef(t) == Strip(SubSeq(t, SuffixStart(t) + 2, Len(t) - 1))

\* parse_anchors has ended on a document that is one header with a title and a
\* "(Contract <R>)" suffix
SingleHeaderParsed ==
    /\ parser = "parse_anchors" /\ pc \in {"returned", "failed"} /\ nread = 1
    /\ SuffixStart(Strip(raw_line)) # 0
    /\ HeaderTitle(Strip(raw_line)) # <<>>
    /\ HeaderRef(Strip(raw_line)) # <<>>

\* the one anchor of that document when its reference is found on line n
ExpectedAnchor(n) ==
    LET t == Strip(raw_line)
    IN [id |-> t[3], title |-> HeaderTitle(t), contract_ref |-> HeaderRef(t),
        proof |-> [section |-> HeaderRef(t), line |-> n]]

\* C19 as stated: for every contract line n that contains R, the parse of the
\* single header returns exactly the anchor with proof.line = n.
C19_SingleHeaderAnyContainingLine ==
    SingleHeaderParsed =>
        \A n \in 1 .. Len(contract_lines) :
            IsSubstring(HeaderRef(Strip(raw_line)), contract_lines[n]) =>
                pc = "returned" /\ result = <<ExpectedAnchor(n)>>

\* C19 amended: when line n is the first contract line that contains R, or R
\* without its "§" when what is left is not empty, the parse of the single header
\* returns exactly the anchor with proof.line = n.
C19_SingleHeaderFirstResolvingLine ==
    SingleHeaderParsed =>
        \A n \in 1 .. Len(contract_lines) :
            (/\ ContainsNonEmptyRef(contract_lines[n], HeaderRef(Strip(raw_line)))
             /\ \A m \in 1 .. (n - 1) :
                   ~ContainsNonEmptyRef(contract_lines[m], HeaderRef(Strip(raw_line)))) =>
                pc = "returned" /\ result = <<ExpectedAnchor(n)>>

\* the header with "(Contract §2.2)" against the contract whose line 7 has "§2.2"
C19_Witness ==
    /\ SingleHeaderParsed /\ pc = "returned"
    /\ contract_lines = ExampleContract
    /\ result = <<[id |-> "Anchor-1", title |-> <<"T">>, contract_ref |-> <<"§", "2", ".", "2">>,
                   proof |-> [section |-> <<"§", "2", ".", "2">>, line |-> 7]]>>

\* C20: in every rule held, enforcement is the record with the one field `rule`
\* whose value is the rule's `rule`.
C20_EnforcementMirrorsRule ==
    parser = "parse_validation_rules" =>
        \A i \in 1 .. Len(RulesHeld) :
            /\ DOMAIN RulesHeld[i].enforcement = {"rule"}
            /\ RulesHeld[i].enforcement.rule = RulesHeld[i].rule

\* a returned rule whose `rule` came from a Trigger line, mirrored in enforcement
C20_Witness ==
    /\ parser = "parse_validation_rules" /\ pc = "returned"
    /\ \E i \in 1 .. Len(result) :
          result[i].rule = <<"t1">> /\ result[i].enforcement = [rule |-> <<"t1">>]

\* q is digits followed by any number of segments "." digits
IsDottedVersion(q) ==
    /\ q # <<>>
    /\ q[1] \in DigitToks /\ q[Len(q)] \in DigitToks
    /\ \A k \in 1 .. Len(q) : q[k] \in DigitToks \cup {"."}
    /\ \A k \in 1 .. (Len(q) - 1) : ~(q[k] = "." /\ q[k + 1] = ".")

\* the place of ":" in a trimmed line that begins with "#", blanks and
\* "**Version:", 0 for any other line
VersionColon(t) ==
    IF \E k \in 2 .. (Len(t) - 3) :
           /\ t[1] = "#" /\ \A q \in 2 .. k : t[q] \in SpaceToks
           /\ t[k + 1] = "**" /\ t[k + 2] = "Version" /\ t[k + 3] = ":"
    THEN 3 + CHOOSE k \in 2 .. (Len(t) - 3) :
                 /\ \A q \in 2 .. k : t[q] \in SpaceToks
                 /\ t[k + 1] = "**" /\ t[k + 2] = "Version" /\ t[k + 3] = ":"
    ELSE 0

\* the place where the version starts in a trimmed line that begins with
\* "# **Version:" and a dotted version, 0 for any other line
VersionStart(t) ==
    IF /\ VersionColon(t) # 0
       /\ AfterBlanks(t, VersionColon(t)) <= Len(t)
       /\ t[AfterBlanks(t, VersionColon(t))] \in DigitToks
    THEN AfterBlanks(t, VersionColon(t))
    ELSE 0

\* the longest dotted version of t that starts at p
LongestVersionAt(t, p) ==
    LET Ends == {e \in p .. Len(t) : IsDottedVersion(SubSeq(t, p, e))}
    IN SubSeq(t, p, CHOOSE e \in Ends : \A f \in Ends : f <= e)

VersionLines == {i \in 1 .. Len(contract_lines) : VersionStart(Strip(contract_lines[i])) # 0}

\* C21: parse_contract_version returns the dotted version of the first line that,
\* trimmed, begins with "# **Version: <dotted-version>", whatever later lines
\* hold, and fails when no line does.
C21_FirstVersionLineWins ==
    (parser = "parse_contract_version" /\ pc # "call") =>
        IF VersionLines = {}
        THEN pc = "failed" /\ err.kind = "contract version not found"
        ELSE /\ pc = "returned"
             /\ contract_version =
                    LongestVersionAt(Strip(contract_lines[First(VersionLines)]),
                                     VersionStart(Strip(contract_lines[First(VersionLines)])))

\* "2.1" was returned from line 2 of a document whose line 3 carries another
\* version
C21_Witness ==
    /\ parser = "parse_contract_version" /\ pc = "returned"
    /\ VersionLines = {2, 3}
    /\ contract_version = <<"2", ".", "1">>
    /\ CONTRACT_VERSION_RE(Strip(contract_lines[3])) # <<contract_version>>

\* a metric value is present and coercible: a number, or nan read as a float
\* (int(nan) is no integer)
Coercible(key, value) ==
    \/ value.t = "num"
    \/ value.t = "nan" /\ key # "atomic_naked_events_24h"

\* the number that a present metric coerces to, in hundredths
Coerced(key, value) ==
    IF key = "atomic_naked_events_24h"
    THEN (IF value.v >= 0 THEN value.v \div 100 ELSE 0 - ((0 - value.v) \div 100)) * 100
    ELSE value.v

\* all three metrics are present and coercible and within the thresholds
\* (a comparison with nan is false)
WithinThresholds ==
    /\ \A i \in 1 .. 3 : Coercible(REQUIRED_METRICS[i], metrics_raw[REQUIRED_METRICS[i]])
    /\ metrics_raw["atomic_naked_events_24h"].t = "num"
    /\ Coerced("atomic_naked_events_24h", metrics_raw["atomic_naked_events_24h"]) <= 0
    /\ metrics_raw["fee_drag_ratio"].t = "num"
    /\ metrics_raw["fee_drag_ratio"].v < 35
    /\ metrics_raw["replay_coverage_pct"].t = "num"
    /\ metrics_raw["replay_coverage_pct"].v >= 9500

\* C22: the status of a certificate is PASS exactly when all three metrics are
\* present and coercible with atomic_naked_events_24h <= 0, fee_drag_ratio < 0.35
\* and replay_coverage_pct >= 95, else FAIL; with a metric missing the only
\* reason is the missing_metrics reason.
C22_PassIffWithinThresholds ==
    (parser = "f1_certify" /\ cert # <<>>) =>
        /\ cert[1].status = (IF WithinThresholds THEN "PASS" ELSE "FAIL")
        /\ (\E i \in 1 .. 3 :
                ~Coercible(REQUIRED_METRICS[i], metrics_raw[REQUIRED_METRICS[i]])) =>
              Len(reasons) = 1 /\ reasons[1].kind = "missing_metrics"

\* a window of the form <n><unit>: digits, then one of s, m, h, d
IsWindowForm(w) ==
    /\ Len(w) >= 2
    /\ \A i \in 1 .. Len(w) - 1 : w[i] \in {"0", "1", "2", "9"}
    /\ w[Len(w)] \in {"s", "m", "h", "d"}

\* the core of a window: surrounding blanks dropped
WindowCore(w) ==
    LET inner == {i \in 1 .. Len(w) : w[i] \notin {" ", "\t"}}
    IN IF inner = {} THEN <<>>
       ELSE [k \in 1 .. (First({0 - i : i \in inner}) * (0 - 1)) - First(inner) + 1 |->
                w[First(inner) + k - 1]]

\* the core with its unit in lower case
WindowCoreLower(w) ==
    [k \in 1 .. Len(WindowCore(w)) |->
        IF k = Len(WindowCore(w)) /\ WindowCore(w)[k] \in {"S", "M", "H", "D"}
        THEN (CASE WindowCore(w)[k] = "S" -> "s" [] WindowCore(w)[k] = "M" -> "m"
                [] WindowCore(w)[k] = "H" -> "h" [] WindowCore(w)[k] = "D" -> "d")
        ELSE WindowCore(w)[k]]

\* the decimal number written by the digits before the unit
RECURSIVE WindowCount(_, _)
WindowCount(w, upto) ==
    IF upto = 0 THEN 0
    ELSE 10 * WindowCount(w, upto - 1)
            + (CASE w[upto] = "0" -> 0 [] w[upto] = "1" -> 1 [] w[upto] = "2" -> 2 [] w[upto] = "9" -> 9)

UnitSeconds(w) ==
    CASE w[Len(w)] = "s" -> 1
      [] w[Len(w)] = "m" -> 60
      [] w[Len(w)] = "h" -> 3600
      [] w[Len(w)] = "d" -> 86400

WindowMillis(w) == WindowCount(w, Len(w) - 1) * UnitSeconds(w) * 1000

CertifyDone == parser = "f1_certify" /\ pc # "call"

\* C23 (as stated): with --now-ms=T and --window=<n><unit> a certificate has
\* generated_ts_ms = T and expires_at_ts_ms = T + n * m * 1000; a window not of
\* the form <n><unit> gives exit code 2 with no artifact written.
C23_WindowFormDecides ==
    CertifyDone =>
        /\ (IsWindowForm(args.window) /\ cert # <<>>) =>
              /\ cert[1].generated_ts_ms = args.now_ms
              /\ cert[1].expires_at_ts_ms = args.now_ms + WindowMillis(args.window)
        /\ ~IsWindowForm(args.window) => (exit_code = "2" /\ written = {})

\* C23 (amended): the form is tested after surrounding whitespace is trimmed and
\* the window is lower-cased; a window of that form never gives exit code 2,
\* and every certificate has generated_ts_ms = T, expires_at_ts_ms = T + n*m*1000;
\* any other window gives exit code 2 with no artifact written.
C23_TrimmedLowerWindowFormDecides ==
    CertifyDone =>
        /\ IsWindowForm(WindowCoreLower(args.window)) =>
              /\ exit_code # "2"
              /\ exit_code = "0" <=> cert # <<>>
              /\ cert # <<>> =>
                    /\ cert[1].generated_ts_ms = args.now_ms
                    /\ cert[1].expires_at_ts_ms =
                          args.now_ms + WindowMillis(WindowCoreLower(args.window))
                    /\ written # {}
        /\ ~IsWindowForm(WindowCoreLower(args.window)) =>
              (exit_code = "2" /\ written = {} /\ cert = <<>>)

C23_Witness ==
    /\ CertifyDone
    /\ args = [window |-> <<"1", "0", "m">>, now_ms |-> 1700000]
    /\ cert # <<>>
    /\ cert[1].expires_at_ts_ms = 2300000

LintDone == parser = "vendor_docs_lint_rust" /\ pc # "call"

\* Cargo.lock differs from the base ref and main gets as far as the crates
LockChanged == lint_env[1].stage = "ok"

\* the (crate, version) pairs of the crates of interest whose version is in
\* the new lock and not in the base lock
NewPairs ==
    { q \in LintCrates \X {"1", "2"} :
        /\ \E k \in 1 .. Len(lint_env[1].crates) : lint_env[1].crates[k] = q[1]
        /\ q[2] \in lint_env[1].new_pkgs[q[1]]
        /\ q[2] \notin lint_env[1].old_pkgs[q[1]] }

\* metadata.json exists, parses as JSON, names the crate and the version and
\* carries the hash of the current Cargo.lock
MetadataMatches(q) ==
    /\ lint_env[1].metadata[q].kind = "object"
    /\ lint_env[1].metadata[q].crate = q[1]
    /\ lint_env[1].metadata[q].version = q[2]
    /\ lint_env[1].metadata[q].cargo_lock_sha256 = "sha-current"

\* C24: with Cargo.lock changed and some crate of interest at a new version,
\* main returns 0 only if every new (crate, version) has a matching
\* metadata.json, and returns 1 otherwise.
C24_FailClosedLint ==
    (LintDone /\ LockChanged /\ NewPairs # {}) =>
        /\ exit_code = "0" => \A q \in NewPairs : MetadataMatches(q)
        /\ (\E q \in NewPairs : ~MetadataMatches(q)) => exit_code = "1"

\* this step reads a field line with one of the labels while a rule is in progress
ReadsFieldOfRule(labels) ==
    /\ parser = "parse_validation_rules" /\ pc = "scan" /\ current # <<>>
    /\ ReadsBodyLine
    /\ FieldLabelLower(raw_line') \in labels

\* C25: a "Rule" field sets `rule` to its value whatever `rule` held; a "Trigger"
\* or "Failure Mode" field sets `rule` to its value when `rule` is empty and
\* leaves it as it is otherwise.
C25_RuleFieldPrecedence ==
    /\ [][ReadsFieldOfRule({<<"rule">>}) => current'[1].rule = FieldValue(raw_line')]_vars
    /\ [][ReadsFieldOfRule({<<"trigger">>, <<"failure", " ", "mode">>}) =>
            current'[1].rule = IF current[1].rule = <<>>
                               THEN FieldValue(raw_line')
                               ELSE current[1].rule]_vars

\* a "Rule" line was read after a Trigger line that found `rule` set
C25_Witness ==
    /\ parser = "parse_validation_rules" /\ pc = "scan"
    /\ current # <<>> /\ current[1].rule = <<"r2">>
    /\ current[1].fields # <<>>
    /\ <<"trigger">> \in DOMAIN current[1].fields
    /\ FieldLabelLower(raw_line) = <<"rule">>

\* this step of parse_validation_rules reads a line and the parse goes on
ReadsRuleLine ==
    parser = "parse_validation_rules" /\ pc = "scan" /\ nread' = nread + 1

\* the line read is a "Gate ID" field with an empty value, a rule being in progress
OpensGateBlock ==
    /\ current # <<>>
    /\ ~IsRuleHeader(raw_line')
    /\ FieldLabelLower(raw_line') = <<"gate", " ", "id">>
    /\ FieldValue(raw_line') = <<>>

\* the line read ends a gate block: a rule header, or a field line of a rule
EndsGateBlock == IsRuleHeader(raw_line') \/ (current # <<>> /\ IsField(raw_line'))

\* the gate-id tokens of a line, in order
GateIdTokens(ln) == SelectSeq(ln, LAMBDA t : t \in {"VR-001", "VR-002", "VR-010", "VR-011"})

\* C26: gate_block becomes true only on a "Gate ID" field line with an empty
\* value; while it is true, a line that is neither a header nor a field line
\* (blank, bullet or prose) leaves it true and appends its gate-id tokens to
\* gate_ids; a field line or a rule header ends the block (an empty "Gate ID"
\* field opens the next one at once); a new rule starts with gate_block false
\* and empty gate_ids and fields.
C26_GateBlockLifecycle ==
    /\ [][(ReadsRuleLine /\ ~gate_block /\ gate_block') => OpensGateBlock]_vars
    /\ [][(ReadsRuleLine /\ gate_block /\ ~EndsGateBlock) =>
            /\ gate_block'
            /\ current'[1].gate_ids = current[1].gate_ids \o GateIdTokens(raw_line')]_vars
    /\ [][(ReadsRuleLine /\ gate_block /\ pc' = "scan") =>
            (gate_block' <=> (~EndsGateBlock \/ OpensGateBlock))]_vars
    /\ [][(ReadsRuleLine /\ IsRuleHeader(raw_line') /\ pc' = "scan") =>
            /\ ~gate_block'
            /\ current'[1].gate_ids = <<>>
            /\ current'[1].fields = <<>>]_vars

\* a gate block that has taken a bullet line is still open after a blank line
C26_Witness ==
    /\ parser = "parse_validation_rules" /\ pc = "scan"
    /\ gate_block
    /\ current # <<>> /\ current[1].gate_ids = <<"VR-011">>
    /\ raw_line = <<>>

\* this step of parse_anchors reads a line that is no header while an anchor
\* is in progress
ReadsLineOfAnchor ==
    /\ parser = "parse_anchors" /\ pc = "scan" /\ current # <<>>
    /\ ReadsBodyLine

\* the reference of the "(Contract <ref>)" suffix of a header line, <<>> without one
SuffixRef(ln) == IF SuffixStart(Strip(ln)) # 0 THEN HeaderRef(Strip(ln)) ELSE <<>>

\* C27: within an anchor record a non-empty contract_ref never changes; an empty
\* one is filled by the first later line in which the resolver finds a reference;
\* a header line gives the record the reference of its suffix and nothing else.
C27_ContractRefSetOnce ==
    /\ [][(ReadsLineOfAnchor /\ current[1].contract_ref # <<>>) =>
            current'[1].contract_ref = current[1].contract_ref]_vars
    /\ [][(ReadsLineOfAnchor /\ current[1].contract_ref = <<>>) =>
            current'[1].contract_ref = extract_contract_ref(RStrip(raw_line'))]_vars
    /\ [][(parser = "parse_anchors" /\ pc = "scan" /\ ReadsHeader /\ pc' = "scan") =>
            current'[1].contract_ref = SuffixRef(raw_line')]_vars

\* the header "## Anchor-2: U §1" left contract_ref empty, "see § 2.2 and
\* Contract 1" filled it, and a later "Contract 1" line was ignored
C27_Witness ==
    /\ parser = "parse_anchors" /\ pc = "scan"
    /\ current # <<>>
    /\ current[1].id = "Anchor-2" /\ current[1].title = <<"U", " ", "§", "1">>
    /\ current[1].contract_ref = <<"§", "2", ".", "2">>
    /\ raw_line = <<"Contract", " ", "1">>

\* this step reads a line of the rule in progress that is no header and no field
ReadsPlainLineOfRule ==
    /\ parser = "parse_validation_rules" /\ pc = "scan" /\ current # <<>>
    /\ ReadsBodyLine
    /\ ~IsField(raw_line')

\* the reference of a text, or the text itself when it holds none
RefOrRaw(value) ==
    IF extract_contract_ref(value) # <<>> THEN extract_contract_ref(value) ELSE value

\* C28: a "Contract Ref" / "Contract Citation" field sets contract_ref to the
\* reference extracted from its value, or to the raw value, whatever it held;
\* a line that is no header and no field sets it, to the reference found in
\* the line, only while gate_block is false and contract_ref is empty; no other
\* line of the record changes it.
C28_RuleContractRef ==
    /\ [][ReadsFieldOfRule({<<"contract", " ", "ref">>, <<"contract", " ", "citation">>}) =>
            current'[1].contract_ref = RefOrRaw(FieldValue(raw_line'))]_vars
    /\ [][ReadsPlainLineOfRule =>
            current'[1].contract_ref =
                IF ~gate_block /\ current[1].contract_ref = <<>>
                THEN extract_contract_ref(RStrip(raw_line'))
                ELSE current[1].contract_ref]_vars
    /\ [][(ReadsFieldOfRule(RecognizedLabels
                              \ {<<"contract", " ", "ref">>, <<"contract", " ", "citation">>})
           \/ (ReadsRuleLine /\ current # <<>> /\ ReadsBodyLine /\ IsField(raw_line')
                /\ FieldLabelLower(raw_line') \notin RecognizedLabels)) =>
            current'[1].contract_ref = current[1].contract_ref]_vars

\* the line "see §1" was read outside a gate block while contract_ref held the
\* raw value of a "Contract Ref" field, and did not replace it
C28_Witness ==
    /\ parser = "parse_validation_rules" /\ pc = "scan"
    /\ current # <<>> /\ current[1].contract_ref = <<"foo">>
    /\ ~gate_block
    /\ raw_line = <<"see", " ", "§", "1">>

\* the record in progress has a defect that its flush detects
FlushDefect ==
    IF parser = "parse_anchors"
    THEN \/ current[1].contract_ref = <<>>
         \/ current[1].id \in seen
         \/ \A m \in 1 .. Len(contract_lines) :
                ~ContainsNonEmptyRef(contract_lines[m], current[1].contract_ref)
    ELSE ExpectedMissing(current[1]) # <<>> \/ current[1].id \in seen

FlushKinds ==
    {"anchor missing contract ref", "duplicate anchor id", "anchor contract ref not found",
     "validation rule missing fields", "duplicate validation rule id"}

\* the line read has a defect of its own: an anchor header whose title is empty
\* once the suffix is taken off, or malformed gate-id data of the rule in progress
LineDefect ==
    \/ /\ parser = "parse_anchors" /\ ReadsHeader
       /\ SuffixStart(Strip(raw_line')) # 0
       /\ HeaderTitle(Strip(raw_line')) = <<>>
    \/ current # <<>> /\ ReadsMalformedGateIdField
    \/ ReadsMalformedGateListEntry

LineKinds ==
    {"anchor missing title", "gate id field missing VR-XXX value",
     "gate id list entry missing VR-XXX value"}

Records == IF parser = "parse_anchors" THEN anchors ELSE rules

InProgress == IF current = <<>> THEN 0 ELSE 1

\* C30: a call ends, and ends either returned with a list and no error or failed
\* with an error and no list; every step before the end reads exactly the next
\* line or is the end of input, and no step follows the end; each header read
\* flushes the record in progress, no other line flushes, and the end of input
\* flushes the last one, so that a returned list has one record for each header
\* read and no record is left in progress.
C30_SinglePassTerminates ==
    /\ <>(pc \in {"returned", "failed"})
    /\ [](pc = "returned" => err = NoError /\ result # <<>> /\ current = <<>>)
    /\ [](pc = "failed" => err # NoError /\ result = <<>>)
    /\ [][pc = "scan" /\ (nread' = nread + 1 \/ (nread' = nread /\ pc' # "scan"))]_vars
    /\ [][(ReadsHeader /\ current # <<>> /\ pc' = "scan") =>
            /\ Len(Records') = Len(Records) + 1
            /\ Records'[Len(Records')].id = current[1].id
            /\ current'[1].id # ""]_vars
    /\ [][ReadsBodyLine => Records' = Records /\ seen' = seen]_vars
    /\ [][(ReachesEnd /\ pc' = "returned") =>
            Len(result') = Len(Records) + InProgress]_vars
    /\ []((pc = "scan" /\ ~repeated_header) =>
            Len(Records) + InProgress = Cardinality(header_ids))
    /\ [](pc = "returned" => Len(result) = Cardinality(header_ids))

\* a call that read two headers and one more line has returned two records
C30_Witness ==
    /\ pc = "returned"
    /\ nread = 3
    /\ Len(result) = 2
    /\ current = <<>>

\* this step reads a line that is no header while no record is in progress
ReadsLineOutsideRecord ==
    /\ Scanning /\ pc = "scan" /\ current = <<>>
    /\ ReadsBodyLine

\* C31: while no record is in progress no header has been read yet, and a line
\* that is no header leaves current, seen, gate_block and the accumulated lists
\* as they are and raises no failure.
C31_LinesBeforeFirstHeaderIgnored ==
    /\ []((Scanning /\ pc = "scan" /\ current = <<>>) =>
            header_ids = {} /\ seen = {} /\ ~gate_block /\ anchors = <<>> /\ rules = <<>>)
    /\ [][ReadsLineOutsideRecord =>
            /\ current' = current /\ seen' = seen /\ gate_block' = gate_block
            /\ anchors' = anchors /\ rules' = rules
            /\ pc' = "scan" /\ err' = NoError]_vars

\* a "Gate ID" field without a gate id, then a line with a section reference,
\* were read before any header and the parse goes on
C31_Witness ==
    /\ parser = "parse_validation_rules" /\ pc = "scan"
    /\ current = <<>> /\ nread = 2
    /\ raw_line = <<"see", " ", "§", "1">>
    /\ err = NoError

\* the line read is a "Gate ID" field with a value, a rule being in progress
ReadsInlineGateIds ==
    /\ current # <<>>
    /\ ~IsRuleHeader(raw_line')
    /\ FieldLabelLower(raw_line') = <<"gate", " ", "id">>
    /\ FieldValue(raw_line') # <<>>

\* the line read is a line of the open gate block of the rule in progress
ReadsGateBlockLine ==
    /\ current # <<>> /\ gate_block
    /\ ~IsRuleHeader(raw_line') /\ ~IsField(raw_line')

\* C32: at every line boundary of parse_validation_rules an open gate block
\* belongs to a rule in progress; a block that is open after a line belongs to
\* the rule that was in progress before the line; the gate_ids of the rule in
\* progress change only on a line of its own open block or on its own "Gate ID"
\* field with a value; the records already flushed never change.
C32_GateBlockHasOwner ==
    /\ []((parser = "parse_validation_rules" /\ pc = "scan" /\ gate_block) => current # <<>>)
    /\ [][(ReadsRuleLine /\ pc' = "scan" /\ gate_block') =>
            /\ ~IsRuleHeader(raw_line')
            /\ current # <<>> /\ current' # <<>>
            /\ current'[1].id = current[1].id]_vars
    /\ [][(ReadsRuleLine /\ pc' = "scan" /\ current # <<>> /\ ~IsRuleHeader(raw_line')
                /\ current'[1].gate_ids # current[1].gate_ids) =>
            (ReadsGateBlockLine \/ ReadsInlineGateIds)]_vars
    /\ [][(ReadsRuleLine /\ pc' = "scan") =>
            /\ Len(rules') >= Len(rules)
            /\ \A i \in 1..Len(rules) : rules'[i] = rules[i]]_vars

\* the second rule's block has taken a gate id; the rule flushed before it has none
C32_Witness ==
    /\ parser = "parse_validation_rules" /\ pc = "scan"
    /\ gate_block
    /\ Len(rules) = 1 /\ rules[1].gate_ids = <<>>
    /\ current # <<>> /\ current[1].id # rules[1].id
    /\ current[1].gate_ids = <<"VR-011">>

\* the labels of the contract reference field
ContractRefLabels == {<<"contract", " ", "ref">>, <<"contract", " ", "citation">>}

\* the line read gives the rule in progress a contract_ref: a contract
\* reference field with a value, or, outside a gate block, a line that is no
\* field and holds a reference
SuppliesContractRef ==
    \/ /\ FieldLabelLower(raw_line') \in ContractRefLabels
       /\ FieldValue(raw_line') # <<>>
    \/ /\ ~IsField(raw_line') /\ ~gate_block
       /\ extract_contract_ref(RStrip(raw_line')) # <<>>

\* C33: a "Contract Ref" / "Contract Citation" field with an empty value leaves
\* the rule in progress with an empty contract_ref, whatever it held, and raises
\* nothing; an empty contract_ref stays empty until a line supplies one; a rule
\* flushed with an empty contract_ref fails with "contract_ref" among the
\* missing fields, one flushed with a contract_ref does not.
C33_EmptyContractRefResets ==
    /\ [][(ReadsFieldOfRule(ContractRefLabels) /\ FieldValue(raw_line') = <<>>) =>
            /\ pc' = "scan" /\ err' = NoError
            /\ current'[1].contract_ref = <<>>]_vars
    /\ [][(ReadsRuleLine /\ current # <<>> /\ ReadsBodyLine /\ pc' = "scan"
                /\ current[1].contract_ref = <<>>) =>
            (current'[1].contract_ref # <<>> <=> SuppliesContractRef)]_vars
    /\ [][(parser = "parse_validation_rules" /\ FlushesRecord) =>
            IF current[1].contract_ref = <<>>
            THEN /\ FailsWith("validation rule missing fields")
                 /\ err'.id = current[1].id
                 /\ \E i \in 1..Len(err'.missing) : err'.missing[i] = "contract_ref"
            ELSE \A i \in 1..Len(err'.missing) : err'.missing[i] # "contract_ref"]_vars

\* a rule with a title and a rule text, whose last line was a "Contract
\* Citation" field with an empty value, failed at the end of input for its
\* contract_ref alone
C33_Witness ==
    /\ parser = "parse_validation_rules" /\ pc = "failed"
    /\ raw_line = <<"**", "Contract", " ", "Citation", ":**">>
    /\ err.kind = "validation rule missing fields"
    /\ err.missing = <<"contract_ref">>
    /\ current # <<>> /\ current[1].contract_ref = <<>>

====
